---------------------------- MODULE Spec2Model ----------------------------
(***************************************************************************)
(* The real-time audio path of engine-sim-cli (src/src/engine_sim_cli.cpp):*)
(* the AudioUnitContext ring buffer, AudioPlayer's operations on it, the   *)
(* HAL render callback AudioPlayer::audioUnitCallback, and the main thread *)
(* of runSimulation that produces into the ring buffer (--play).           *)
(*                                                                         *)
(* Two threads take steps: the main thread (producer) and the HAL's render *)
(* thread (consumer).  An access to a shared location (an atomic load or   *)
(* store, one frame of the plain float storage) is a step of its own; a    *)
(* thread's load of a location only it writes, and accesses that commute   *)
(* with every step of the other thread, are part of the neighbouring step. *)
(*                                                                         *)
(* A frame is one interleaved stereo pair; both floats of a frame are      *)
(* copied by the same loop iteration, so a frame is modelled as one value. *)
(* 0 is the silent sample 0.0f.  The source's k-th generated frame has the *)
(* value k, which makes every generated frame distinguishable.             *)
(***************************************************************************)
EXTENDS Integers, Sequences, FiniteSets, TLC

\* ------------------------------------------------------------------------
\* Bounds.  The program's sizes are scaled down; the code's value is given.
\* ------------------------------------------------------------------------
\* circularBufferSize, 96000 frames in the code.
CapacityFrames == 5
\* framesPerUpdate = sampleRate / 60, 735 frames in the code.
FramesPerUpdate == 2
\* preFillIterations, 40 in the code.
PreFillIterations == 1
\* warm-up iterations: warmupDuration / updateInterval, 30 in the code.
WarmupIterations == 1
\* main-loop iterations: args.duration / updateInterval.
MainCycles == 3
\* largest numberFrames the HAL asks for in one render callback.
MaxRequest == 2
\* number of render callbacks the HAL makes in a run.
MaxCallbacks == 2
\* the steady-state specification: capacity, main-loop iterations, callbacks.
SteadyCapacity == 3
SteadyCycles == 3
SteadyCallbacks == 3
\* largest capacity of the write/read round-trip specification.
RoundTripMaxCapacity == 4
\* the matched-rate specification: capacity and main-loop iterations.
MatchedCapacity == 5
MatchedCycles == 5
\* the source-starvation specification: main-loop iterations.
StarveCycles == 3
\* The values given to a gauge: a * GaugeCoarse + b for a in
\* 0..GaugeCoarseSteps and b in 0..GaugeFineSteps, so that ranges of some
\* hundred units and differences of one or two units both occur.
GaugeCoarse == 200
GaugeCoarseSteps == 2
GaugeFineSteps == 2
\* Calls of MockEngineDataProvider::Update in the view-model specification.
MaxProviderUpdates == 2
\* Iterations of the dashboard's update thread, and renders of the UI thread.
MaxDashboardUpdates == 3
MaxRenders == 2
\* targetLeadFrames of the lead controller's contract (441 frames, 10 ms, in
\* the contract's concrete scenario; 100 ms as its canonical value).
TargetLeadFrames == 1
\* maxLeadFrames of the lead controller's contract (500 ms, 22050 frames).
MaxLeadFrames == 3

\* maxRetries of the main loop's read from the synthesizer.
MaxRetries == 3

\* EngineViewModel: thresholds of a change (rpm; manifold pressure in
\* hundredths of inHg; speed in hundredths of mph).
RPM_CHANGE_THRESHOLD == 10
PRESSURE_CHANGE_THRESHOLD == 50
SPEED_CHANGE_THRESHOLD == 50
\* MockEngineDataProvider.
DEFAULT_REDLINE == 7000
DEFAULT_CYLINDERS == 4

\* Time is counted in thirds of a microsecond, so that the period of the
\* 60 Hz loops, updateInterval = 1.0 / 60.0 s, is a whole number of ticks.
Microsecond == 3

UpdateInterval == 50000

\* Iterations of a paced loop that are followed.
MaxPacedIterations == 4

\* The recording buffer: bufferFrames = duration * sampleRate, here two and a
\* half update cycles; interactive runs are followed for MaxRecordCycles
\* iterations.
BufferFrames == 5

MaxRecordCycles == 4

\* The starter logic of engine mode.  Warm-up time is counted in iterations:
\* currentTime, the double sum of updateInterval, is below warmupDuration =
\* 0.5 for 31 iterations and reaches maxStarterTime = 0.4 in the 25th.
WarmupDuration == 31

MaxStarterTime == 25

MinSustainedRPM == 300

RequiredSustainedFrames == 15

RunningRPMThreshold == 350

RestartRPM == 150

\* Frames between two diagnostics reports of an interactive run (180 in the
\* program, less than the 735 frames of a cycle).
DiagnosticFrames == 1

VARIABLES
    ctx,      \* AudioUnitContext: the state shared by the two threads
    player,   \* AudioPlayer's private fields and the HAL's run state
    main,     \* the main thread: position in runSimulation, loop counter
    add,      \* the frame of the addToCircularBuffer call in progress
    cb,       \* the frame of the render callback in progress (kept after it returns)
    hist,     \* history variables (not program state): what was written and delivered
    tui,      \* engine-sim-tui: the dashboard's provider, view models and threads
    sim       \* runSimulation's locals: arguments, pacing clock, recording, starter

\* The variables of engine-sim-cli.
cliVars == <<ctx, player, main, add, cb, hist, sim>>

vars == <<ctx, player, main, add, cb, hist, tui, sim>>

\* What the HAL's destination buffer holds before the callback fills it.
Unwritten == 0 - 1

Min(a, b) == IF a <= b THEN a ELSE b

Zeros(n) == [k \in 1..n |-> 0]

\* ------------------------------------------------------------------------
\* Pure computations of the code
\* ------------------------------------------------------------------------

\* addToCircularBuffer: storage frame that receives samples[i] (0-based i).
WriteIndex(writePtr, i, frameCount, bufferSize) ==
    IF writePtr + frameCount <= bufferSize
    THEN writePtr + i
    ELSE LET firstSegment == bufferSize - writePtr
         IN  IF i < firstSegment THEN writePtr + i ELSE i - firstSegment

\* addToCircularBuffer: the copy loops run while samples remain.
CopyLoopCond_StopsEarly(i, frameCount) == i < frameCount - 1

CopyLoopCond(i, frameCount) == i < frameCount

\* addToCircularBuffer: the committed write pointer.
NewWritePtr_NoWrap(writePtr, frameCount, bufferSize) == writePtr + frameCount

NewWritePtr_Drifts(writePtr, frameCount, bufferSize) ==
    (writePtr + frameCount + 1) % bufferSize

NewWritePtr(writePtr, frameCount, bufferSize) ==
    (writePtr + frameCount) % bufferSize

\* runSimulation: the condition of the read-with-retry loop.
RetryCond_Unbounded(retry, totalRead, framesPerUpdate) ==
    totalRead < framesPerUpdate

RetryCond(retry, totalRead, framesPerUpdate) ==
    retry <= MaxRetries /\ totalRead < framesPerUpdate

\* runSimulation: totalRead after an attempt that ended with `success` and
\* readThisTime frames.
AddRead(totalRead, success, readThisTime) ==
    IF success /\ readThisTime > 0 THEN totalRead + readThisTime ELSE totalRead

\* runSimulation: the condition of the main loop (both modes).
LoopCond(interactive, currentTime, duration, running) ==
    (~interactive /\ currentTime < duration) \/ (interactive /\ running)

\* audioUnitCallback: frames available between the two loaded pointers.
Available(writePtr, readPtr, bufferSize) ==
    IF writePtr >= readPtr
    THEN writePtr - readPtr
    ELSE (bufferSize - readPtr) + writePtr

\* audioUnitCallback: frames this invocation reads.
FramesToRead_All(framesToWrite, available) == available

FramesToRead(framesToWrite, available) == Min(framesToWrite, available)

\* audioUnitCallback: storage frame read for output frame `frame`.
ReadPos_NoWrap(readPtr, frame, bufferSize) ==
    Min(readPtr + frame, bufferSize - 1)

ReadPos(readPtr, frame, bufferSize) == (readPtr + frame) % bufferSize

\* audioUnitCallback: the published read pointer.
NewReadPtr_Leap(readPtr, framesToRead, framesToWrite, bufferSize) ==
    (readPtr + framesToWrite) % bufferSize

NewReadPtr(readPtr, framesToRead, framesToWrite, bufferSize) ==
    (readPtr + framesToRead) % bufferSize

\* audioUnitCallback: the destination after the silence fill of an underrun:
\* frames [framesToRead, framesToWrite) are zeroed, the others kept.
SilenceFill_OffByOne(data, framesToRead, framesToWrite) ==
    [k \in 1..Len(data) |->
        IF k > framesToRead + 1 /\ k <= framesToWrite THEN 0 ELSE data[k]]

SilenceFill(data, framesToRead, framesToWrite) ==
    [k \in 1..Len(data) |->
        IF k > framesToRead /\ k <= framesToWrite THEN 0 ELSE data[k]]

\* audioUnitCallback: bufferStatus set at the end of an invocation.
CallbackStatus(framesToRead, framesToWrite, available, bufferSize) ==
    IF framesToRead < framesToWrite
    THEN (IF available < bufferSize \div 8 THEN 2 ELSE 1)
    ELSE 0

\* audioUnitCallback: the two silence exits at the top of the callback.
OutputSilence_IgnoresFlag(ctxPresent, ctxIsPlaying, haveBuffer) ==
    ~ctxPresent \/ ~haveBuffer

OutputSilence(ctxPresent, ctxIsPlaying, haveBuffer) ==
    ~ctxPresent \/ ~ctxIsPlaying \/ ~haveBuffer

\* audioUnitCallback: underrunCount after the underrun check.
CountUnderrun_Down(count, framesToRead, framesToWrite) ==
    IF framesToRead < framesToWrite /\ count > 0 THEN count - 1 ELSE count

CountUnderrun(count, framesToRead, framesToWrite) ==
    IF framesToRead < framesToWrite THEN count + 1 ELSE count

\* getBufferDiagnostics: status from the available frames.
DiagStatus(available, bufferSize) ==
    IF available > bufferSize \div 4 THEN 0
    ELSE IF available > bufferSize \div 8 THEN 1
    ELSE IF available > 0 THEN 2
    ELSE 3

\* getBufferDiagnostics: underrunCount after the query (status 3 adds one).
DiagUnderrunCount(count, status) == IF status = 3 THEN count + 1 ELSE count


\* ------------------------------------------------------------------------
\* engine-sim-tui: pure operators.  The doubles of the code are exact
\* numbers here, each quantity counted in a unit that makes its values
\* integers: rpm; throttle in percent; speed in hundredths of mph; manifold
\* and cylinder pressure in hundredths of inHg; time in milliseconds; fuel in
\* 10^-12 gallons; crank angle in thousandths of a degree.  A gauge counts in
\* the unit of the quantity it shows.
\* ------------------------------------------------------------------------
Abs(x) == IF x < 0 THEN 0 - x ELSE x

Max(a, b) == IF a >= b THEN a ELSE b

\* std::clamp(v, lo, hi) for lo <= hi.
Clamp(v, lo, hi) == IF v < lo THEN lo ELSE IF hi < v THEN hi ELSE v

\* GaugeViewModel: m_changeThreshold = (max - min) * 0.01, kept as a number
\* of hundredths of the gauge's unit.
ChangeThreshold(min, max) == max - min

\* GaugeViewModel after its constructor.
NewGauge ==
    [ m_value           |-> 0,
      m_min             |-> 0,
      m_max             |-> 100,
      m_changeThreshold |-> ChangeThreshold(0, 100) ]

\* A change counts only when it is above the threshold.
Significant_Strict(delta, changeThreshold) == 100 * delta > changeThreshold

\* GaugeViewModel::SetValue: if (delta < m_changeThreshold) return false.
Significant(delta, changeThreshold) == ~(100 * delta < changeThreshold)

\* GaugeViewModel::SetValue(value): what it returns.
SetValueReturns(g, value) ==
    Significant(Abs(Clamp(value, g.m_min, g.m_max) - g.m_value), g.m_changeThreshold)

\* GaugeViewModel::SetValue(value): the gauge after the call.
SetValue(g, value) ==
    IF SetValueReturns(g, value)
    THEN [g EXCEPT !.m_value = Clamp(value, g.m_min, g.m_max)]
    ELSE g

\* GaugeViewModel::SetRange(min, max): the range and the threshold are
\* stored, then SetValue(m_value) is to clamp the current value.
SetRange(g, min, max) ==
    SetValue([g EXCEPT !.m_min = min, !.m_max = max,
                       !.m_changeThreshold = ChangeThreshold(min, max)],
             g.m_value)

\* MockEngineDataProvider after its constructor and SetRpmPattern of the
\* constant pattern [](double) { return pattern; }.
NewProvider(pattern) ==
    [ m_time              |-> 0,
      m_rpm               |-> 0,
      m_speed             |-> 0,
      m_manifoldPressure  |-> 0,
      m_throttle          |-> 0,
      m_fuelConsumed      |-> 0,
      m_ignitionEnabled   |-> FALSE,
      m_starterEngaged    |-> FALSE,
      m_initialized       |-> TRUE,
      m_rpmPattern        |-> pattern,
      m_cylinderPressures |-> [i \in 1..DEFAULT_CYLINDERS |-> 0],
      m_cylinderFiring    |-> [i \in 1..DEFAULT_CYLINDERS |-> FALSE] ]

\* MockEngineDataProvider::Update: current + std::clamp(target - current,
\* -rate * dt, rate * dt).
Approach(current, target, step) == current + Clamp(target - current, 0 - step, step)

\* MockEngineDataProvider::Update: the firing state of cylinder i (1..4,
\* firing order 1-3-4-2) at crankAngle.
Firing(i, crankAngle) ==
    CASE i = 1 -> crankAngle >= 0 /\ crankAngle < 180000
      [] i = 3 -> crankAngle >= 180000 /\ crankAngle < 360000
      [] i = 4 -> crankAngle >= 360000 /\ crankAngle < 540000
      [] OTHER -> crankAngle >= 540000 /\ crankAngle < 720000

\* MockEngineDataProvider::Update(dt), dt in milliseconds.  (The cylinder
\* temperatures, a sine of a phase, are left out; nothing compares them.)
ProviderUpdate(p, dt) ==
    LET time == p.m_time + dt
        patternRpm == p.m_rpmPattern
        starterRpm == IF p.m_starterEngaged /\ ~p.m_ignitionEnabled
                      THEN 200 ELSE patternRpm
        targetRpm == Clamp(starterRpm, 0, (DEFAULT_REDLINE * 11) \div 10)
        \* rpmRate = 2000 rpm per second
        rpm == Max(0, Approach(p.m_rpm, targetRpm, (2000 * dt) \div 1000))
        \* targetSpeed = (rpm / 3000) * 60 mph; speedRate = 10 mph per second
        speed == Max(0, Approach(p.m_speed, 2 * rpm, dt))
        throttle == p.m_throttle
        \* targetManifold = -30 + throttle * 35 inHg, or -20 in vacuum;
        \* manifoldRate = 50 inHg per second
        targetManifold == IF rpm > 2000 /\ throttle < 30
                          THEN 0 - 2000
                          ELSE 35 * throttle - 3000
        manifold == Approach(p.m_manifoldPressure, targetManifold, 5 * dt)
        \* fmod(m_time * (rpm / 60.0) * 360.0, 720.0)
        crankAngle == (time * rpm * 6) % 720000
    IN  [p EXCEPT
           !.m_time = time,
           !.m_rpm = rpm,
           !.m_speed = speed,
           !.m_manifoldPressure = manifold,
           !.m_cylinderPressures = [i \in 1..DEFAULT_CYLINDERS |-> manifold + 10000],
           !.m_cylinderFiring = [i \in 1..DEFAULT_CYLINDERS |->
                                    rpm > 100 /\ Firing(i, crankAngle)],
           \* fuelRate = throttle * (rpm / 1000.0) * 0.0001 gallons per second
           !.m_fuelConsumed = @ + throttle * rpm * dt]

\* EngineViewModel after its constructor.
NewEngine ==
    [ m_provider          |-> FALSE,   \* m_provider is not null
      m_updateCallback    |-> FALSE,   \* m_updateCallback holds a function
      m_rpm               |-> 0,
      m_throttle          |-> 0,
      m_manifoldPressure  |-> 0,
      m_speed             |-> 0,
      m_fuelConsumed      |-> 0,
      m_cylinderPressures |-> [i \in 1..4 |-> 0],
      m_cylinderFiring    |-> [i \in 1..4 |-> FALSE],
      m_hasChanged        |-> FALSE ]

\* A difference equal to the threshold counts as a change too.
Changed_AtLeast(newValue, cached, threshold) == Abs(newValue - cached) >= threshold

\* EngineViewModel::Update: if (std::abs(newValue - cached) > threshold).
Changed(newValue, cached, threshold) == Abs(newValue - cached) > threshold

\* EngineViewModel::Update reaches its body.
UpdateRuns(e, p) == e.m_provider /\ p.m_initialized

\* EngineViewModel::Update with provider p: the view model after the call.
\* (The throttle's threshold is the literal 0.01, one percent.  Of the values
\* copied every time, the constants and the ones computed with sin and exp
\* are left out.)
EngineUpdate(e, p) ==
    IF ~UpdateRuns(e, p)
    THEN e
    ELSE LET rpm      == Changed(p.m_rpm, e.m_rpm, RPM_CHANGE_THRESHOLD)
             throttle == Changed(p.m_throttle, e.m_throttle, 1)
             manifold == Changed(p.m_manifoldPressure, e.m_manifoldPressure,
                                 PRESSURE_CHANGE_THRESHOLD)
             speed    == Changed(p.m_speed, e.m_speed, SPEED_CHANGE_THRESHOLD)
         IN  [e EXCEPT
                !.m_rpm = IF rpm THEN p.m_rpm ELSE @,
                !.m_throttle = IF throttle THEN p.m_throttle ELSE @,
                !.m_manifoldPressure = IF manifold THEN p.m_manifoldPressure ELSE @,
                !.m_speed = IF speed THEN p.m_speed ELSE @,
                !.m_hasChanged = rpm \/ throttle \/ manifold \/ speed,
                !.m_fuelConsumed = p.m_fuelConsumed,
                !.m_cylinderPressures = p.m_cylinderPressures,
                !.m_cylinderFiring = p.m_cylinderFiring]

\* EngineViewModel::Update: the calls of m_updateCallback it makes.
CallbackCalls(e, p) ==
    IF UpdateRuns(e, p) /\ EngineUpdate(e, p).m_hasChanged /\ e.m_updateCallback
    THEN 1 ELSE 0

\* DashboardLayout: the gauges in the order Update sets them and Render
\* reads them.
Gauges == << "m_tachometer", "m_speedometer", "m_manifoldGauge" >>

\* DashboardLayout::Update: the value of the view model that gauge i gets.
GaugeSource(e, i) ==
    CASE i = 1 -> e.m_rpm
      [] i = 2 -> e.m_speed
      [] OTHER -> e.m_manifoldPressure

\* DashboardLayout::InitializeGauges: the three gauges after SetRange.
InitializeGauges ==
    << SetRange(NewGauge, 0, 7000),
       SetRange(NewGauge, 0, 20000),
       SetRange(NewGauge, 0 - 3000, 1000) >>

\* The values of the three gauges.
GaugeValues(gauges) == [i \in 1..Len(Gauges) |-> gauges[i].m_value]

\* engine-sim-tui after the constructors: one gauge on its own, a provider
\* with a constant pattern, the view model, and the dashboard with its
\* update thread and the UI thread at rest.
NewTui(pattern) ==
    [ gauge     |-> NewGauge,
      call      |-> [ op |-> "new", value |-> 0, min |-> 0, max |-> 0, ret |-> FALSE ],
      provider  |-> NewProvider(pattern),
      engine    |-> NewEngine,
      gauges    |-> InitializeGauges,
      update    |-> [ pc |-> "provider", n |-> 0, i |-> 1 ],
      render    |-> [ pc |-> "idle", n |-> 0, i |-> 1,
                      seen |-> GaugeValues(InitializeGauges) ],
      \* history: provider updates in all and since the pattern was set,
      \* calls of the update callback by the last EngineViewModel::Update,
      \* gauge values after each whole DashboardLayout::Update
      providerUpdates |-> 0,
      sincePattern    |-> 0,
      callbackCalls   |-> 0,
      snapshots       |-> { GaugeValues(InitializeGauges) } ]

InitTui == NewTui(0)


\* ------------------------------------------------------------------------
\* State after construction, and after AudioPlayer::initialize has succeeded
\* ------------------------------------------------------------------------

\* AudioUnitContext after its constructor and the allocation in initialize.
InitContext(size) ==
    [ isPlaying          |-> FALSE,
      circularBuffer     |-> [k \in 0..(size - 1) |-> 0],
      circularBufferSize |-> size,
      writePointer       |-> 0,
      readPointer        |-> 0,
      underrunCount      |-> 0,
      bufferStatus       |-> 0 ]

\* AudioPlayer after its constructor: no audio unit, no context.
NewPlayer ==
    [ halRunning |-> FALSE,   \* between AudioOutputUnitStart and AudioOutputUnitStop
      isPlaying  |-> FALSE,   \* AudioPlayer::isPlaying
      audioUnit  |-> FALSE,   \* audioUnit is not nullptr
      context    |-> FALSE,   \* context is not nullptr
      storage    |-> FALSE ]  \* context->circularBuffer is allocated

\* AudioPlayer: audioUnit created and initialized, not started; isPlaying false.
InitPlayer ==
    [NewPlayer EXCEPT !.audioUnit = TRUE, !.context = TRUE, !.storage = TRUE]

NoCall == [ samples |-> << >>, writePtr |-> 0, i |-> 0, ret |-> "none", fits |-> TRUE ]

\* The out-parameters of getBufferDiagnostics: locals of the report block of
\* the main loop, dead once the report is printed.
NoDiag == [ op |-> "none", writePtr |-> 0, readPtr |-> 0, available |-> 0, status |-> 0 ]

\* The main thread at place pc of runSimulation, in a run without
\* --interactive, with g_running as initialized.
\* The locals of the main loop's read from the synthesizer: tempBuffer and
\* the counters of the retry loop.
NoRead == [ retry |-> 0, totalRead |-> 0, tempBuffer |-> << >> ]

MainAt(pc) ==
    [ pc          |-> pc,
      iter        |-> 0,       \* iterations of the loop at pc begun so far (currentTime / updateInterval)
      diag        |-> NoDiag,
      read        |-> NoRead,
      interactive |-> FALSE,   \* args.interactive
      running     |-> TRUE ]   \* g_running

IdleCallback ==
    [ pc            |-> "idle",
      numberFrames  |-> 0,
      readPtr       |-> 0,
      writePtr      |-> 0,
      available     |-> 0,
      framesToRead  |-> 0,
      frame         |-> 0,
      data          |-> << >>,
      silent        |-> FALSE,
      steps         |-> 0 ]

\* runSimulation's locals at the top of a paced loop: the steady clock reads
\* `now` ticks after absoluteStartTime and no iteration has been counted.
InitSim ==
    [ pc                  |-> "work",
      now                 |-> 0,
      totalIterationCount |-> 0,
      iterations          |-> 0,      \* history: loop bodies run so far
      targetUs            |-> 0,      \* of the last timing control
      elapsedUs           |-> 0,
      slept               |-> FALSE,
      interactive         |-> FALSE,  \* args.interactive
      playAudio           |-> FALSE,  \* args.playAudio
      outputWav           |-> FALSE,  \* args.outputWav != nullptr
      audioPlayer         |-> FALSE,  \* audioPlayer != nullptr
      running             |-> TRUE,   \* g_running
      currentTime         |-> 0,      \* in updateIntervals
      framesRendered      |-> 0,
      framesProcessed     |-> 0,
      lastDiagnosticFrame |-> 0,
      lastProgress        |-> 0,
      outsideBuffer       |-> FALSE,  \* history: audioBuffer was accessed past its end
      nullDiagnostics     |-> FALSE,  \* history: getBufferDiagnostics was called on a null audioPlayer
      starterMotor        |-> FALSE,  \* the state last given to SetStarterMotor
      starterDisengaged   |-> FALSE,
      sustainedRPMCount   |-> 0,
      starterEnabled      |-> FALSE,
      engineHasStarted    |-> FALSE,
      starterState        |-> FALSE,  \* the static flag of the 'S' key
      currentRPM          |-> 0,      \* stats.currentRPM of the iteration
      disengageCount      |-> 0,      \* history: SetStarterMotor(handle, 0) calls of the warm-up
      streak              |-> 0,      \* history: consecutive warm-up samples above minSustainedRPM
      disengagedAt        |-> 0,      \* history: warm-up iteration of the disengagement
      disengagedStreak    |-> 0,      \* history: streak at the disengagement
      engagedAtRPM        |-> 0 ]     \* history: currentRPM when the main loop last engaged the starter

InitHist ==
    [ nextSample     |-> 1,      \* value of the next frame the source generates
      written        |-> << >>,  \* frames committed by addToCircularBuffer since the last reset
      delivered      |-> << >>,  \* frames copied out of storage by callbacks since the last reset
      consumed       |-> 0,      \* frames by which callbacks advanced readPointer since the last reset
      overrun        |-> FALSE,  \* some write began with available + frameCount >= capacity
      resetRaced     |-> FALSE,  \* resetCircularBuffer overlapped a callback invocation
      shortCallbacks |-> 0,      \* callbacks that read fewer frames than requested
      callbacks      |-> 0 ]     \* callbacks invoked

Init ==
    /\ ctx = InitContext(CapacityFrames)
    /\ player = NewPlayer
    /\ main = MainAt("initialize")
    /\ add = NoCall
    /\ cb = IdleCallback
    /\ tui = InitTui
    /\ sim = InitSim
    /\ hist = InitHist

\* ------------------------------------------------------------------------
\* Main thread: AudioPlayer::addToCircularBuffer(samples, frameCount)
\* ------------------------------------------------------------------------

\* The frames the source generates next.
Generate(first, n) == [k \in 1..n |-> first + k - 1]

\* The precondition the ring buffer leaves to its caller: the frames fit
\* into the free space, available + frameCount < capacity.
Fits(frameCount) ==
    Available(ctx.writePointer, ctx.readPointer, ctx.circularBufferSize) + frameCount
        < ctx.circularBufferSize

\* The main thread calls addToCircularBuffer(samples, frameCount) from the
\* place `ret` of runSimulation: int writePtr = context->writePointer.load();
\* (writePointer is stored by the main thread only, so this load is a step
\* the render thread cannot tell from the call.)
BeginAdd(samples, ret, iter, firstNew) ==
    /\ add' = [ samples  |-> samples,
                writePtr |-> ctx.writePointer,
                i        |-> 0,
                ret      |-> ret,
                fits     |-> Fits(Len(samples)) ]
    /\ main' = [main EXCEPT !.pc = "add_copy", !.iter = iter]
    /\ hist' = [hist EXCEPT !.nextSample = firstNew,
                            !.overrun = @ \/ ~Fits(Len(samples))]

\* One iteration of a copy loop: both floats of frame i.
AddCopy ==
    /\ main.pc = "add_copy"
    /\ CopyLoopCond(add.i, Len(add.samples))
    /\ ctx' = [ctx EXCEPT !.circularBuffer =
                  [@ EXCEPT ![WriteIndex(add.writePtr, add.i, Len(add.samples),
                                         ctx.circularBufferSize)] = add.samples[add.i + 1]]]
    /\ add' = [add EXCEPT !.i = @ + 1]
    /\ UNCHANGED <<player, main, cb, hist, tui, sim>>

\* context->writePointer.store(newWritePtr); and return.
AddCommit ==
    /\ main.pc = "add_copy"
    /\ ~CopyLoopCond(add.i, Len(add.samples))
    /\ ctx' = [ctx EXCEPT !.writePointer =
                  NewWritePtr(add.writePtr, Len(add.samples), ctx.circularBufferSize)]
    /\ main' = [main EXCEPT !.pc = add.ret]
    /\ hist' = [hist EXCEPT !.written = @ \o add.samples]
    /\ UNCHANGED <<player, add, cb, tui, sim>>

\* ------------------------------------------------------------------------
\* Main thread: runSimulation with --play
\* ------------------------------------------------------------------------

\* The HAL setup steps of AudioPlayer::initialize, in the order of the calls.
SetupSteps ==
    << "AudioComponentFindNext", "AudioComponentInstanceNew", "SetStreamFormat",
       "SetRenderCallback", "AudioUnitInitialize" >>

\* AudioPlayer::initialize up to its return or its call of cleanup(): the
\* context is created, then every setup step succeeds (failed = 0) or step
\* `failed` fails.  Before the audio unit exists the context is deleted on
\* the spot and false is returned; after that cleanup() is called.  The
\* storage is allocated after the last step only.
Initialize ==
    /\ main.pc = "initialize"
    /\ \E failed \in 0..Len(SetupSteps) :
          /\ player' = CASE failed = 0 -> InitPlayer
                          [] failed \in 1..2 -> NewPlayer
                          [] OTHER -> [NewPlayer EXCEPT !.audioUnit = TRUE,
                                                        !.context = TRUE]
          /\ main' = [main EXCEPT !.pc = CASE failed = 0 -> "prefill"
                                          [] failed \in 1..2 -> "init_failed"
                                          [] OTHER -> "init_cleanup"]
    /\ UNCHANGED <<ctx, add, cb, hist, tui, sim>>

\* Pre-fill: preFillIterations writes of framesPerUpdate frames of silence.
PreFill ==
    /\ main.pc = "prefill"
    /\ IF main.iter < PreFillIterations
       THEN BeginAdd(Zeros(FramesPerUpdate), "prefill", main.iter + 1, hist.nextSample)
       ELSE /\ main' = [main EXCEPT !.pc = "start", !.iter = 0]
            /\ UNCHANGED <<add, hist>>
    /\ UNCHANGED <<ctx, player, cb, tui, sim>>

\* AudioPlayer::start without its test of audioUnit.
StartCall_NoGuard(from, started, failed) ==
    /\ main.pc = from
    /\ \E ok \in BOOLEAN :
          IF ok
          THEN /\ player' = [player EXCEPT !.halRunning = TRUE]
               /\ main' = [main EXCEPT !.pc = started]
          ELSE /\ main' = [main EXCEPT !.pc = failed]
               /\ UNCHANGED player
    /\ UNCHANGED <<ctx, add, cb, hist, tui, sim>>

\* AudioPlayer::start called at `from`: if (!audioUnit) return false; then
\* AudioOutputUnitStart succeeds (the caller goes on at `started`, inside
\* start) or fails (start returns false to `failed`).
StartCall(from, started, failed) ==
    /\ main.pc = from
    /\ IF ~player.audioUnit
       THEN /\ main' = [main EXCEPT !.pc = failed]
            /\ UNCHANGED player
       ELSE \E ok \in BOOLEAN :
               IF ok
               THEN /\ player' = [player EXCEPT !.halRunning = TRUE]
                    /\ main' = [main EXCEPT !.pc = started]
               ELSE /\ main' = [main EXCEPT !.pc = failed]
                    /\ UNCHANGED player
    /\ UNCHANGED <<ctx, add, cb, hist, tui, sim>>

\* runSimulation: audioPlayer->start() after the pre-fill; on failure it
\* prints a warning and goes on.
Start == StartCall("start", "start_flag", "warmup")

\* AudioPlayer::start, after the HAL started: isPlaying = true (both flags).
StartFlag ==
    /\ main.pc = "start_flag"
    /\ player' = [player EXCEPT !.isPlaying = TRUE]
    /\ ctx' = [ctx EXCEPT !.isPlaying = TRUE]
    /\ main' = [main EXCEPT !.pc = "warmup"]
    /\ UNCHANGED <<add, cb, hist, tui, sim>>

\* A warm-up iteration that drains the synthesizer and drops the frames.
Warmup_Discards ==
    /\ main.pc = "warmup"
    /\ IF main.iter < WarmupIterations
       THEN \E warmupRead \in 0..FramesPerUpdate :
               /\ main' = [main EXCEPT !.iter = @ + 1]
               /\ hist' = [hist EXCEPT !.nextSample = @ + warmupRead]
               /\ UNCHANGED add
       ELSE /\ main' = [main EXCEPT !.pc = "reset_write", !.iter = 0]
            /\ UNCHANGED <<add, hist>>
    /\ UNCHANGED <<ctx, player, cb, tui, sim>>

\* One warm-up iteration of engine mode: it reads what the synthesizer has
\* (0 to framesPerUpdate frames after the retries) and writes it to the ring
\* buffer when it is not empty.  (Sine mode's warm-up writes nothing: the
\* iterations with warmupRead = 0.)
Warmup ==
    /\ main.pc = "warmup"
    /\ IF main.iter < WarmupIterations
       THEN \E warmupRead \in 0..FramesPerUpdate :
               IF warmupRead > 0
               THEN BeginAdd(Generate(hist.nextSample, warmupRead),
                             "warmup", main.iter + 1, hist.nextSample + warmupRead)
               ELSE /\ main' = [main EXCEPT !.iter = @ + 1]
                    /\ UNCHANGED <<add, hist>>
       ELSE /\ main' = [main EXCEPT !.pc = "reset_write", !.iter = 0]
            /\ UNCHANGED <<add, hist>>
    /\ UNCHANGED <<ctx, player, cb, tui, sim>>

\* resetCircularBuffer: context->writePointer.store(0);
ResetWrite ==
    /\ main.pc = "reset_write"
    /\ ctx' = [ctx EXCEPT !.writePointer = 0]
    /\ main' = [main EXCEPT !.pc = "reset_read"]
    /\ hist' = [hist EXCEPT !.written = << >>, !.delivered = << >>, !.consumed = 0,
                            !.resetRaced = @ \/ cb.pc # "idle"]
    /\ UNCHANGED <<player, add, cb, tui, sim>>

\* resetCircularBuffer: context->readPointer.store(0);
ResetRead ==
    /\ main.pc = "reset_read"
    /\ ctx' = [ctx EXCEPT !.readPointer = 0]
    /\ main' = [main EXCEPT !.pc = "reset_memset"]
    /\ add' = [add EXCEPT !.i = 0]
    /\ UNCHANGED <<player, cb, hist, tui, sim>>

\* resetCircularBuffer: the memset, one frame of storage per step.
ResetMemset ==
    /\ main.pc = "reset_memset"
    /\ IF add.i < ctx.circularBufferSize
       THEN /\ ctx' = [ctx EXCEPT !.circularBuffer = [@ EXCEPT ![add.i] = 0]]
            /\ add' = [add EXCEPT !.i = @ + 1]
            /\ UNCHANGED main
       ELSE /\ main' = [main EXCEPT !.pc = "loop"]
            /\ UNCHANGED <<ctx, add>>
    /\ UNCHANGED <<player, cb, hist, tui, sim>>

\* One main-loop iteration up to the ring-buffer write: engine mode writes
\* the totalRead frames the synthesizer returned (nothing when 0).  (Sine
\* mode always writes framesPerUpdate generated frames: totalRead =
\* framesPerUpdate.)  An interactive run has no last iteration; the model
\* follows it for `cycles` iterations.
LoopIteration(cycles) ==
    /\ main.pc = "loop"
    /\ IF LoopCond(main.interactive, main.iter, cycles, main.running)
       THEN /\ main.iter < cycles
            /\ \E totalRead \in 0..FramesPerUpdate :
                  IF totalRead > 0
                  THEN BeginAdd(Generate(hist.nextSample, totalRead),
                                "progress", main.iter + 1, hist.nextSample + totalRead)
                  ELSE /\ main' = [main EXCEPT !.pc = "progress", !.iter = @ + 1]
                       /\ UNCHANGED <<add, hist>>
       ELSE /\ main' = [main EXCEPT !.pc = "stop"]
            /\ UNCHANGED <<add, hist>>
    /\ UNCHANGED <<ctx, player, cb, tui, sim>>

Loop == LoopIteration(MainCycles)

\* Progress display of an iteration in which no diagnostics are due.
Progress ==
    /\ main.pc = "progress"
    /\ main' = [main EXCEPT !.pc = "loop"]
    /\ UNCHANGED <<ctx, player, add, cb, hist, tui, sim>>

\* getBufferDiagnostics (the periodic report of the main loop): the two
\* pointers are loaded, available and status are computed, and status 3 does
\* context->underrunCount.fetch_add(1).  (The main thread's load of its own
\* writePointer, the load of readPointer and the fetch_add commute with every
\* step of the render thread that lies between them, so they are one step.)
GetBufferDiagnostics ==
    /\ main.pc = "progress"
    /\ LET available == Available(ctx.writePointer, ctx.readPointer, ctx.circularBufferSize)
           status    == DiagStatus(available, ctx.circularBufferSize)
       IN  /\ main' = [main EXCEPT !.pc = "report",
                                   !.diag = [ op        |-> "query",
                                              writePtr  |-> ctx.writePointer,
                                              readPtr   |-> ctx.readPointer,
                                              available |-> available,
                                              status    |-> status ]]
           /\ ctx' = [ctx EXCEPT !.underrunCount = DiagUnderrunCount(@, status)]
    /\ UNCHANGED <<player, add, cb, hist, tui, sim>>

\* resetBufferDiagnostics: a public operation of AudioPlayer open to the
\* thread that owns the player (runSimulation itself does not call it).
ResetBufferDiagnostics ==
    /\ main.pc = "progress"
    /\ ctx' = [ctx EXCEPT !.underrunCount = 0, !.bufferStatus = 0]
    /\ main' = [main EXCEPT !.pc = "report", !.diag.op = "reset"]
    /\ UNCHANGED <<player, add, cb, hist, tui, sim>>

\* The report is printed and the iteration ends.
Report ==
    /\ main.pc = "report"
    /\ main' = [main EXCEPT !.pc = "loop", !.diag = NoDiag]
    /\ UNCHANGED <<ctx, player, add, cb, hist, tui, sim>>

\* AudioPlayer::stop: if (audioUnit && isPlaying) AudioOutputUnitStop, which
\* returns when no render callback is running any more.
Stop ==
    /\ main.pc = "stop"
    /\ IF player.audioUnit /\ player.isPlaying
       THEN /\ cb.pc = "idle"
            /\ player' = [player EXCEPT !.halRunning = FALSE]
            /\ main' = [main EXCEPT !.pc = "stop_flag"]
       ELSE /\ main' = [main EXCEPT !.pc = "stopped"]
            /\ UNCHANGED player
    /\ UNCHANGED <<ctx, add, cb, hist, tui, sim>>

\* AudioPlayer::stop: isPlaying = false (both flags).
StopFlag ==
    /\ main.pc = "stop_flag"
    /\ player' = [player EXCEPT !.isPlaying = FALSE]
    /\ ctx' = [ctx EXCEPT !.isPlaying = FALSE]
    /\ main' = [main EXCEPT !.pc = "stopped"]
    /\ UNCHANGED <<add, cb, hist, tui, sim>>

\* After stop(): engine mode calls cleanup() and then deletes the player;
\* sine mode waits and deletes the player.
Teardown ==
    /\ main.pc = "stopped"
    /\ \E next \in {"cleanup", "delete"} : main' = [main EXCEPT !.pc = next]
    /\ UNCHANGED <<ctx, player, add, cb, hist, tui, sim>>

\* AudioPlayer::cleanup, first block, with the audio unit left as it is.
CleanupStop_Skipped(from, to) ==
    /\ main.pc = from
    /\ main' = [main EXCEPT !.pc = to]
    /\ UNCHANGED <<ctx, player, add, cb, hist, tui, sim>>

\* AudioPlayer::cleanup, first block: if (audioUnit) the unit is stopped
\* (AudioOutputUnitStop returns when no render callback is running any more),
\* uninitialized and disposed, and audioUnit = nullptr.
CleanupStop(from, to) ==
    /\ main.pc = from
    /\ IF player.audioUnit
       THEN /\ cb.pc = "idle"
            /\ player' = [player EXCEPT !.halRunning = FALSE, !.audioUnit = FALSE]
       ELSE UNCHANGED player
    /\ main' = [main EXCEPT !.pc = to]
    /\ UNCHANGED <<ctx, add, cb, hist, tui, sim>>

\* AudioPlayer::cleanup, second block: if (context) the storage and the
\* context are freed; then isPlaying = false.
CleanupFree(from, to) ==
    /\ main.pc = from
    /\ player' = [player EXCEPT !.context = FALSE, !.storage = FALSE,
                                !.isPlaying = FALSE]
    /\ main' = [main EXCEPT !.pc = to]
    /\ UNCHANGED <<ctx, add, cb, hist, tui, sim>>

\* cleanup() called by a failing initialize, which then returns false.
InitializeCleanup ==
    \/ CleanupStop("init_cleanup", "init_cleanup_free")
    \/ CleanupFree("init_cleanup_free", "init_failed")

\* runSimulation after initialize returned false: delete audioPlayer.
InitializeFailed ==
    /\ main.pc = "init_failed"
    /\ main' = [main EXCEPT !.pc = "delete"]
    /\ UNCHANGED <<ctx, player, add, cb, hist, tui, sim>>

\* cleanup() called by runSimulation; the player is deleted next.
Cleanup ==
    \/ CleanupStop("cleanup", "cleanup_free")
    \/ CleanupFree("cleanup_free", "delete")

\* delete audioPlayer: ~AudioPlayer calls cleanup().
Destructor ==
    \/ CleanupStop("delete", "delete_free")
    \/ CleanupFree("delete_free", "done")


\* ------------------------------------------------------------------------
\* HAL render thread: AudioPlayer::audioUnitCallback(numberFrames, ioData)
\* The stream format is interleaved stereo, so ioData holds one buffer of
\* numberFrames frames and framesToWrite = numberFrames.
\* ------------------------------------------------------------------------

\* True while resetCircularBuffer has stored one pointer and not yet finished.
ResetInProgress == main.pc \in {"reset_read", "reset_memset"}

CallbackHist == [hist EXCEPT !.resetRaced = @ \/ ResetInProgress]

\* The callback is entered and tests ctx and ctx->isPlaying.load(), then
\* ctx->circularBuffer: a silence exit zeroes the whole destination and returns.
CallbackEnter(numberFrames) ==
    /\ cb.pc = "idle"
    /\ player.halRunning
    /\ IF OutputSilence(player.context, ctx.isPlaying, player.storage)
       THEN cb' = [IdleCallback EXCEPT !.numberFrames = numberFrames,
                                       !.data = Zeros(numberFrames),
                                       !.silent = TRUE,
                                       !.steps = 1]
       ELSE cb' = [IdleCallback EXCEPT !.pc = "load_read",
                                       !.numberFrames = numberFrames,
                                       !.data = [k \in 1..numberFrames |-> Unwritten],
                                       !.steps = 1]
    /\ hist' = [CallbackHist EXCEPT !.callbacks = @ + 1]
    /\ UNCHANGED <<ctx, player, main, add, tui, sim>>

\* int readPtr = ctx->readPointer.load();
CallbackLoadRead ==
    /\ cb.pc = "load_read"
    /\ cb' = [cb EXCEPT !.pc = "load_write", !.readPtr = ctx.readPointer, !.steps = @ + 1]
    /\ hist' = CallbackHist
    /\ UNCHANGED <<ctx, player, main, add, tui, sim>>

\* int writePtr = ctx->writePointer.load(); available and framesToRead
\* follow, and if (framesToRead < framesToWrite) ctx->underrunCount.fetch_add(1).
\* (No step of the main thread touches both writePointer and underrunCount,
\* so the load and the fetch_add commute with it and are taken as one step.)
CallbackLoadWrite ==
    /\ cb.pc = "load_write"
    /\ LET available    == Available(ctx.writePointer, cb.readPtr, ctx.circularBufferSize)
           framesToRead == FramesToRead(cb.numberFrames, available)
       IN  /\ cb' = [cb EXCEPT !.pc = "copy",
                               !.writePtr = ctx.writePointer,
                               !.available = available,
                               !.framesToRead = framesToRead,
                               !.steps = @ + 1]
           /\ ctx' = [ctx EXCEPT !.underrunCount =
                         CountUnderrun(@, framesToRead, cb.numberFrames)]
           /\ hist' = [CallbackHist EXCEPT !.shortCallbacks =
                          IF framesToRead < cb.numberFrames THEN @ + 1 ELSE @]
    /\ UNCHANGED <<player, main, add, tui, sim>>

\* One iteration of the copy loop: both floats of output frame `frame`.
CallbackCopy ==
    /\ cb.pc = "copy"
    /\ cb.frame < cb.framesToRead
    /\ LET v == ctx.circularBuffer[ReadPos(cb.readPtr, cb.frame, ctx.circularBufferSize)]
       IN  /\ cb' = [cb EXCEPT !.data = [@ EXCEPT ![cb.frame + 1] = v],
                               !.frame = @ + 1,
                               !.steps = @ + 1]
           /\ hist' = [CallbackHist EXCEPT !.delivered = Append(@, v)]
    /\ UNCHANGED <<ctx, player, main, add, tui, sim>>

\* After the loop: the silence fill of an underrun and ctx->bufferStatus.
CallbackFill ==
    /\ cb.pc = "copy"
    /\ ~(cb.frame < cb.framesToRead)
    /\ cb' = [cb EXCEPT !.pc = "store",
                        !.data = SilenceFill(@, cb.framesToRead, cb.numberFrames),
                        !.steps = @ + 1]
    /\ ctx' = [ctx EXCEPT !.bufferStatus =
                  CallbackStatus(cb.framesToRead, cb.numberFrames, cb.available,
                                 ctx.circularBufferSize)]
    /\ hist' = CallbackHist
    /\ UNCHANGED <<player, main, add, tui, sim>>

\* ctx->readPointer.store(newReadPtr); return noErr;
CallbackStore ==
    /\ cb.pc = "store"
    /\ ctx' = [ctx EXCEPT !.readPointer =
                  NewReadPtr(cb.readPtr, cb.framesToRead, cb.numberFrames,
                             ctx.circularBufferSize)]
    /\ cb' = IdleCallback
    /\ hist' = [CallbackHist EXCEPT !.consumed = @ + cb.framesToRead]
    /\ UNCHANGED <<player, main, add, tui, sim>>

\* The steps of a callback invocation after its entry.
CallbackBody ==
    \/ CallbackLoadRead
    \/ CallbackLoadWrite
    \/ CallbackCopy
    \/ CallbackFill
    \/ CallbackStore

\* The HAL asks for 1..MaxRequest frames, MaxCallbacks times in a run.
CallbackInvoke ==
    /\ hist.callbacks < MaxCallbacks
    /\ \E numberFrames \in 1..MaxRequest : CallbackEnter(numberFrames)

Callback == CallbackInvoke \/ CallbackBody

AddToCircularBuffer == AddCopy \/ AddCommit

ResetCircularBuffer == ResetWrite \/ ResetRead \/ ResetMemset

MainThread ==
    \/ Initialize
    \/ InitializeCleanup
    \/ InitializeFailed
    \/ PreFill
    \/ Start
    \/ StartFlag
    \/ Warmup
    \/ AddToCircularBuffer
    \/ ResetCircularBuffer
    \/ Loop
    \/ Progress
    \/ GetBufferDiagnostics
    \/ ResetBufferDiagnostics
    \/ Report
    \/ Stop
    \/ StopFlag
    \/ Teardown
    \/ Cleanup
    \/ Destructor

Next == MainThread \/ Callback

Spec == Init /\ [][Next]_vars


\* ------------------------------------------------------------------------
\* The start of a run up to the end of the post-warm-up reset: pre-fill,
\* start of playback, warm-up and reset, with the render thread.
\* ------------------------------------------------------------------------
NextWarmup ==
    \/ Initialize
    \/ PreFill
    \/ Start
    \/ StartFlag
    \/ Warmup
    \/ AddToCircularBuffer
    \/ ResetCircularBuffer
    \/ Callback

SpecWarmup == Init /\ [][NextWarmup]_vars

\* ------------------------------------------------------------------------
\* Setup of the player by a caller that calls start() whatever initialize
\* returned, and deletes the player when start() returned false after a
\* failed initialize.
\* ------------------------------------------------------------------------
StartAfterFailure == StartCall("init_failed", "start_flag", "delete")

NextSetup ==
    \/ Initialize
    \/ InitializeCleanup
    \/ StartAfterFailure
    \/ PreFill
    \/ Start
    \/ StartFlag
    \/ Warmup
    \/ AddToCircularBuffer
    \/ ResetCircularBuffer
    \/ Callback
    \/ Destructor

SpecSetup == Init /\ [][NextSetup]_vars

\* ------------------------------------------------------------------------
\* The steady state: the main loop and the render thread on a buffer that a
\* reset has just emptied while no callback was running (both pointers 0,
\* storage zeroed, playback started).  No reset and no diagnostics follow.
\* ------------------------------------------------------------------------
InitSteady ==
    /\ ctx = [InitContext(SteadyCapacity) EXCEPT !.isPlaying = TRUE]
    /\ player = [InitPlayer EXCEPT !.halRunning = TRUE, !.isPlaying = TRUE]
    /\ main = MainAt("loop")
    /\ add = NoCall
    /\ cb = IdleCallback
    /\ tui = InitTui
    /\ sim = InitSim
    /\ hist = InitHist

SteadyLoop == LoopIteration(SteadyCycles)

SteadyInvoke ==
    /\ hist.callbacks < SteadyCallbacks
    /\ \E numberFrames \in 1..MaxRequest : CallbackEnter(numberFrames)

NextSteady ==
    \/ SteadyLoop
    \/ Progress
    \/ AddCopy
    \/ AddCommit
    \/ SteadyInvoke
    \/ CallbackBody

SpecSteady == InitSteady /\ [][NextSteady]_vars

\* ------------------------------------------------------------------------
\* The running flag: the steady state of an interactive or a fixed-duration
\* run, with SIGINT/SIGTERM and the quit key.
\* ------------------------------------------------------------------------
InitRun ==
    /\ ctx = [InitContext(SteadyCapacity) EXCEPT !.isPlaying = TRUE]
    /\ player = [InitPlayer EXCEPT !.halRunning = TRUE, !.isPlaying = TRUE]
    /\ \E interactive \in BOOLEAN :
          main = [MainAt("loop") EXCEPT !.interactive = interactive]
    /\ add = NoCall
    /\ cb = IdleCallback
    /\ tui = InitTui
    /\ sim = InitSim
    /\ hist = InitHist

\* signalHandler: g_running.store(false), at any moment.
SignalHandler ==
    /\ main.running
    /\ main' = [main EXCEPT !.running = FALSE]
    /\ UNCHANGED <<ctx, player, add, cb, hist, tui, sim>>

\* The quit key of an interactive run: the iteration's key handling does
\* g_running.store(false) and the iteration goes on.  (Only the loop
\* condition reads g_running, so the place of the store within the
\* iteration makes no difference.)
QuitKey ==
    /\ main.pc = "progress"
    /\ main.interactive
    /\ main.running
    /\ main' = [main EXCEPT !.running = FALSE]
    /\ UNCHANGED <<ctx, player, add, cb, hist, tui, sim>>

NextRun ==
    \/ SteadyLoop
    \/ Progress
    \/ QuitKey
    \/ SignalHandler
    \/ AddCopy
    \/ AddCommit
    \/ SteadyInvoke
    \/ CallbackBody

SpecRun == InitRun /\ [][NextRun]_vars

\* ------------------------------------------------------------------------
\* Source starvation: the main loop's read from the synthesizer attempt by
\* attempt, each attempt returning what the synthesizer has ready, and the
\* write that follows.  The render thread takes no step.
\* ------------------------------------------------------------------------
InitStarve ==
    /\ ctx = [InitContext(CapacityFrames) EXCEPT !.isPlaying = TRUE]
    /\ player = [InitPlayer EXCEPT !.halRunning = TRUE, !.isPlaying = TRUE]
    /\ main = MainAt("loop")
    /\ add = NoCall
    /\ cb = IdleCallback
    /\ tui = InitTui
    /\ sim = InitSim
    /\ hist = InitHist

\* The loop condition holds and the iteration comes to its read:
\* std::vector<float> tempBuffer(framesPerUpdate * 2); int totalRead = 0;
StarveLoop ==
    /\ main.pc = "loop"
    /\ LoopCond(main.interactive, main.iter, StarveCycles, main.running)
    /\ main' = [main EXCEPT !.pc = "read",
                            !.read = [ retry      |-> 0,
                                       totalRead  |-> 0,
                                       tempBuffer |-> Zeros(FramesPerUpdate) ]]
    /\ UNCHANGED <<ctx, player, add, cb, hist, tui, sim>>

\* int remaining = framesPerUpdate - totalRead: what one pass of the retry
\* loop asks the synthesizer for.
Remaining_Whole(totalRead) == FramesPerUpdate

Remaining(totalRead) == FramesPerUpdate - totalRead

\* One pass of the retry loop: ReadAudioBuffer(handle, tempBuffer.data() +
\* totalRead * 2, remaining, &readThisTime) fails, or returns the frames the
\* synthesizer has ready, at most `remaining`; retry++.
ReadAttemptAt(at) ==
    /\ main.pc = at
    /\ RetryCond(main.read.retry, main.read.totalRead, FramesPerUpdate)
    /\ LET remaining == Remaining(main.read.totalRead)
       IN  \E success \in BOOLEAN :
              \E ready \in 0..FramesPerUpdate :
                 LET readThisTime == IF success THEN Min(ready, remaining) ELSE 0
                     frames == Generate(hist.nextSample, readThisTime)
                 IN  /\ (~success) => ready = 0
                     /\ main' = [main EXCEPT
                            !.read.retry = @ + 1,
                            !.read.totalRead = AddRead(@, success, readThisTime),
                            !.read.tempBuffer =
                                [k \in 1..FramesPerUpdate |->
                                    IF /\ k > main.read.totalRead
                                       /\ k <= main.read.totalRead + readThisTime
                                    THEN frames[k - main.read.totalRead]
                                    ELSE @[k]]]
                     /\ hist' = [hist EXCEPT !.nextSample = @ + readThisTime]
    /\ UNCHANGED <<ctx, player, add, cb, tui, sim>>

ReadAttempt == ReadAttemptAt("read")

\* After the retry loop: if (totalRead > 0) addToCircularBuffer(
\* tempBuffer.data(), totalRead); the iteration goes on either way.
ReadDoneAt(at, ret) ==
    /\ main.pc = at
    /\ ~RetryCond(main.read.retry, main.read.totalRead, FramesPerUpdate)
    /\ IF main.read.totalRead > 0
       THEN BeginAdd(SubSeq(main.read.tempBuffer, 1, main.read.totalRead),
                     ret, main.iter + 1, hist.nextSample)
       ELSE /\ main' = [main EXCEPT !.pc = ret, !.iter = @ + 1]
            /\ UNCHANGED <<add, hist>>
    /\ UNCHANGED <<ctx, player, cb, tui, sim>>

ReadDone == ReadDoneAt("read", "progress")

NextStarve ==
    \/ StarveLoop
    \/ ReadAttempt
    \/ ReadDone
    \/ AddCopy
    \/ AddCommit
    \/ Progress

SpecStarve == InitStarve /\ [][NextStarve]_vars

\* ---------------------------------------------------------------------------
\* The producer cycles of engine mode with their read retries: the warm-up
\* loop, the reset after it, and the main loop.
\* ---------------------------------------------------------------------------

InitCycle ==
    /\ ctx = [InitContext(CapacityFrames) EXCEPT !.isPlaying = TRUE]
    /\ player = [InitPlayer EXCEPT !.halRunning = TRUE, !.isPlaying = TRUE]
    /\ main = MainAt("warmup")
    /\ add = NoCall
    /\ cb = IdleCallback
    /\ tui = InitTui
    /\ sim = InitSim
    /\ hist = InitHist

\* while (currentTime < warmupDuration): the iteration comes to its read,
\* std::vector<float> warmupAudio(framesPerUpdate * 2); int warmupRead = 0;
\* after the last iteration the buffer is reset.
WarmupCycle ==
    /\ main.pc = "warmup"
    /\ IF main.iter < WarmupIterations
       THEN main' = [main EXCEPT !.pc = "warmup_read",
                                 !.read = [ retry      |-> 0,
                                            totalRead  |-> 0,
                                            tempBuffer |-> Zeros(FramesPerUpdate) ]]
       ELSE main' = [main EXCEPT !.pc = "reset_write", !.iter = 0]
    /\ UNCHANGED <<ctx, player, add, cb, hist, tui, sim>>

\* for (retry = 0; retry <= 3 && warmupRead < framesPerUpdate; retry++)
\* ReadAudioBuffer(..., framesPerUpdate - warmupRead, &readThisTime)
WarmupReadAttempt == ReadAttemptAt("warmup_read")

\* if (warmupRead > 0) addToCircularBuffer(warmupAudio.data(), warmupRead)
WarmupReadDone == ReadDoneAt("warmup_read", "warmup")

NextCycle ==
    \/ WarmupCycle
    \/ WarmupReadAttempt
    \/ WarmupReadDone
    \/ ResetCircularBuffer
    \/ StarveLoop
    \/ ReadAttempt
    \/ ReadDone
    \/ AddCopy
    \/ AddCommit
    \/ Progress

SpecCycle == InitCycle /\ [][NextCycle]_vars

\* ---------------------------------------------------------------------------
\* The timing control of the paced loops (sine mode, and engine mode with
\* --play): the clock, the iteration counter and the sleep.
\* ---------------------------------------------------------------------------

\* Time one loop body may take, in ticks: next to nothing, less than a
\* period, a whole period, more than two periods.
WorkDurations == {1, 20000, UpdateInterval, 2 * UpdateInterval + 20001}

\* Time by which sleep_for may return after the requested duration.
SleepOvershoot == {0, 1, 2, 5000}

\* duration_cast<microseconds>(now - absoluteStartTime).count()
ElapsedUs(now) == now \div Microsecond

\* static_cast<long long>(totalIterationCount * updateInterval * 1000000)
TargetUs(totalIterationCount) ==
    (totalIterationCount * UpdateInterval) \div Microsecond

\* auto sleepUs = targetUs - elapsedUs;
SleepUs_Short(targetUs, elapsedUs) == targetUs - elapsedUs - 1

SleepUs(targetUs, elapsedUs) == targetUs - elapsedUs

InitPaced ==
    /\ ctx = InitContext(CapacityFrames)
    /\ player = NewPlayer
    /\ main = MainAt("loop")
    /\ add = NoCall
    /\ cb = IdleCallback
    /\ hist = InitHist
    /\ tui = InitTui
    /\ sim = InitSim

\* The body of one iteration, up to the timing control; it takes some time.
LoopBody ==
    /\ sim.pc = "work"
    /\ sim.totalIterationCount < MaxPacedIterations
    /\ \E d \in WorkDurations :
          sim' = [sim EXCEPT !.pc = "pace", !.now = @ + d, !.iterations = @ + 1]
    /\ UNCHANGED <<ctx, player, main, add, cb, hist, tui>>

\* totalIterationCount++; elapsedUs and targetUs are computed; if
\* (sleepUs > 0) sleep_for(microseconds(sleepUs)), which returns after at
\* least that long.
TimingControl ==
    /\ sim.pc = "pace"
    /\ LET count     == sim.totalIterationCount + 1
           elapsedUs == ElapsedUs(sim.now)
           targetUs  == TargetUs(count)
           sleepUs   == SleepUs(targetUs, elapsedUs)
       IN  \E late \in SleepOvershoot :
              /\ sleepUs <= 0 => late = 0
              /\ sim' = [sim EXCEPT
                    !.pc = "work",
                    !.totalIterationCount = count,
                    !.elapsedUs = elapsedUs,
                    !.targetUs = targetUs,
                    !.slept = sleepUs > 0,
                    !.now = IF sleepUs > 0
                            THEN @ + sleepUs * Microsecond + late
                            ELSE @]
    /\ UNCHANGED <<ctx, player, main, add, cb, hist, tui>>

NextPaced ==
    \/ LoopBody
    \/ TimingControl

SpecPaced == InitPaced /\ [][NextPaced]_vars

\* ---------------------------------------------------------------------------
\* The main loop of engine mode as far as the recording buffer and the
\* diagnostics go: any combination of --interactive, --play and an output
\* file; with --play the player exists or its initialization has failed.
\* ---------------------------------------------------------------------------

InitRecord ==
    /\ ctx = InitContext(CapacityFrames)
    /\ player = NewPlayer
    /\ main = MainAt("loop")
    /\ add = NoCall
    /\ cb = IdleCallback
    /\ hist = InitHist
    /\ tui = InitTui
    /\ \E interactive, playAudio, outputWav, audioPlayer \in BOOLEAN :
          /\ audioPlayer => playAudio
          /\ sim = [InitSim EXCEPT !.pc = "loop",
                                   !.interactive = interactive,
                                   !.playAudio = playAudio,
                                   !.outputWav = outputWav,
                                   !.audioPlayer = audioPlayer]

\* The key handling of an interactive iteration, case 'q':
\* g_running.store(false).
RecordQuit ==
    /\ sim.pc = "render"
    /\ sim.interactive
    /\ sim.running
    /\ sim' = [sim EXCEPT !.running = FALSE]
    /\ UNCHANGED <<ctx, player, main, add, cb, hist, tui>>

\* The condition of the main loop; currentTime < args.duration is compared
\* in frames.
RecordLoop ==
    /\ sim.pc = "loop"
    /\ IF LoopCond(sim.interactive, sim.currentTime * FramesPerUpdate,
                   BufferFrames, sim.running)
       THEN /\ sim.currentTime < MaxRecordCycles
            /\ sim' = [sim EXCEPT !.pc = "render"]
       ELSE sim' = [sim EXCEPT !.pc = "wav"]
    /\ UNCHANGED <<ctx, player, main, add, cb, hist, tui>>

\* framesToRender: a cycle's frames, cut to what the recording still takes in
\* non-interactive runs only.
FramesToRender(interactive, framesProcessed) ==
    IF ~interactive
    THEN Min(FramesPerUpdate, BufferFrames - framesProcessed)
    ELSE FramesPerUpdate

\* The render step: without --play, Render(handle, audioBuffer.data() +
\* framesRendered * channels, framesToRender, &samplesWritten) and both
\* counters advance by samplesWritten; with --play both advance by
\* framesToRender.  currentTime += updateInterval.
RenderStep ==
    /\ sim.pc = "render"
    /\ LET framesToRender == FramesToRender(sim.interactive, sim.framesProcessed)
       IN  IF framesToRender > 0
           THEN IF ~sim.playAudio
                THEN \E samplesWritten \in 0..framesToRender :
                        sim' = [sim EXCEPT
                           !.pc = "display",
                           !.currentTime = @ + 1,
                           !.outsideBuffer =
                               @ \/ sim.framesRendered + framesToRender > BufferFrames,
                           !.framesRendered = @ + samplesWritten,
                           !.framesProcessed = @ + samplesWritten]
                ELSE sim' = [sim EXCEPT
                           !.pc = "display",
                           !.currentTime = @ + 1,
                           !.framesRendered = @ + framesToRender,
                           !.framesProcessed = @ + framesToRender]
           ELSE sim' = [sim EXCEPT !.pc = "display", !.currentTime = @ + 1]
    /\ UNCHANGED <<ctx, player, main, add, cb, hist, tui>>

\* Display progress and diagnostics: interactive runs call
\* audioPlayer->getBufferDiagnostics whenever enough frames were processed
\* since the last report; the others at every new multiple of 10 percent,
\* if (audioPlayer).
Display ==
    /\ sim.pc = "display"
    /\ IF sim.interactive
       THEN IF sim.framesProcessed - sim.lastDiagnosticFrame >= DiagnosticFrames
            THEN sim' = [sim EXCEPT !.pc = "loop",
                                    !.nullDiagnostics = @ \/ ~sim.audioPlayer,
                                    !.lastDiagnosticFrame = sim.framesProcessed]
            ELSE sim' = [sim EXCEPT !.pc = "loop"]
       ELSE LET progress == (sim.framesProcessed * 100) \div BufferFrames
            IN  IF progress # sim.lastProgress /\ progress % 10 = 0
                THEN sim' = [sim EXCEPT !.pc = "loop", !.lastProgress = progress]
                ELSE sim' = [sim EXCEPT !.pc = "loop"]
    /\ UNCHANGED <<ctx, player, main, add, cb, hist, tui>>

\* After the loop: if (args.outputWav) wavFile.write(audioBuffer.data(),
\* framesRendered * channels * sizeof(float)).
WavWrite ==
    /\ sim.pc = "wav"
    /\ sim' = [sim EXCEPT !.pc = "done",
                          !.outsideBuffer =
                              @ \/ (sim.outputWav /\ sim.framesRendered > BufferFrames)]
    /\ UNCHANGED <<ctx, player, main, add, cb, hist, tui>>

NextRecord ==
    \/ RecordQuit
    \/ RecordLoop
    \/ RenderStep
    \/ Display
    \/ WavWrite

SpecRecord == InitRecord /\ [][NextRecord]_vars

\* ---------------------------------------------------------------------------
\* The starter motor in engine mode: the warm-up loop, then the hysteresis
\* and the 'S' key of the main loop, for any RPM the engine reports.
\* ---------------------------------------------------------------------------

\* stats.currentRPM: values around the three thresholds.
RpmSamples == {100, 149, 150, 300, 301, 350, 351, 1000}

\* SetStarterMotor(handle, 1); bool starterDisengaged = false;
InitStarter ==
    /\ ctx = InitContext(CapacityFrames)
    /\ player = NewPlayer
    /\ main = MainAt("warmup")
    /\ add = NoCall
    /\ cb = IdleCallback
    /\ hist = InitHist
    /\ tui = InitTui
    /\ \E interactive \in BOOLEAN :
          sim = [InitSim EXCEPT !.pc = "warmup",
                                !.interactive = interactive,
                                !.starterMotor = TRUE]

\* Emergency cutoff: currentTime >= maxStarterTime.
StarterCutoff_Never(currentTime) == FALSE

StarterCutoff(currentTime) == currentTime >= MaxStarterTime

\* One warm-up iteration: GetStats, currentTime += updateInterval, then the
\* sustained-RPM check and the emergency cutoff; after the last iteration
\* starterEnabled = !starterDisengaged, engineHasStarted = starterDisengaged.
WarmupStarter ==
    /\ sim.pc = "warmup"
    /\ IF sim.currentTime < WarmupDuration
       THEN \E rpm \in RpmSamples :
               LET currentTime == sim.currentTime + 1
                   above       == rpm > MinSustainedRPM
                   count       == IF sim.starterDisengaged THEN sim.sustainedRPMCount
                                  ELSE IF above THEN sim.sustainedRPMCount + 1 ELSE 0
                   sustained   == ~sim.starterDisengaged /\ above
                                     /\ count >= RequiredSustainedFrames
                   cutoff      == ~sim.starterDisengaged /\ ~sustained
                                     /\ StarterCutoff(currentTime)
                   streak      == IF above THEN sim.streak + 1 ELSE 0
               IN  sim' = [sim EXCEPT
                      !.currentTime = currentTime,
                      !.currentRPM = rpm,
                      !.sustainedRPMCount = count,
                      !.streak = streak,
                      !.starterDisengaged = @ \/ sustained \/ cutoff,
                      !.starterMotor = @ /\ ~(sustained \/ cutoff),
                      !.disengageCount = @ + (IF sustained THEN 1 ELSE 0)
                                           + (IF cutoff THEN 1 ELSE 0),
                      !.disengagedAt = IF sustained \/ cutoff THEN currentTime ELSE @,
                      !.disengagedStreak = IF sustained \/ cutoff THEN streak ELSE @]
       ELSE sim' = [sim EXCEPT !.pc = "main",
                               !.currentTime = 0,
                               !.starterEnabled = ~sim.starterDisengaged,
                               !.engineHasStarted = sim.starterDisengaged]
    /\ UNCHANGED <<ctx, player, main, add, cb, hist, tui>>

\* The top of a main-loop iteration: GetStats, then the starter hysteresis.
StarterHysteresis ==
    /\ sim.pc = "main"
    /\ \E rpm \in RpmSamples :
          sim' = IF sim.starterEnabled /\ rpm > RunningRPMThreshold
                 THEN [sim EXCEPT !.pc = "keys", !.currentRPM = rpm,
                                  !.iterations = 1,
                                  !.starterMotor = FALSE,
                                  !.starterEnabled = FALSE,
                                  !.engineHasStarted = TRUE]
                 ELSE IF ~sim.starterEnabled /\ sim.engineHasStarted /\ rpm < RestartRPM
                 THEN [sim EXCEPT !.pc = "keys", !.currentRPM = rpm,
                                  !.iterations = 1,
                                  !.starterMotor = TRUE,
                                  !.starterEnabled = TRUE,
                                  !.engagedAtRPM = rpm]
                 ELSE [sim EXCEPT !.pc = "keys", !.currentRPM = rpm,
                                  !.iterations = 1]
    /\ UNCHANGED <<ctx, player, main, add, cb, hist, tui>>

\* The key handling of the iteration, which ends it as far as the starter
\* goes: no key or another key, or in an interactive run a new press of 'S':
\* starterState = !starterState; SetStarterMotor(handle, starterState ? 1 : 0).
KeyHandling ==
    /\ sim.pc = "keys"
    /\ \E key \in {"none", "s"} :
          /\ key = "s" => sim.interactive
          /\ sim' = IF key = "s"
                    THEN [sim EXCEPT !.pc = "main",
                                     !.starterState = ~@,
                                     !.starterMotor = ~sim.starterState,
                                     !.engagedAtRPM =
                                         IF ~sim.starterState THEN sim.currentRPM ELSE @]
                    ELSE [sim EXCEPT !.pc = "main"]
    /\ UNCHANGED <<ctx, player, main, add, cb, hist, tui>>

NextStarter ==
    \/ WarmupStarter
    \/ StarterHysteresis
    \/ KeyHandling

SpecStarter == InitStarter /\ [][NextStarter]_vars


\* ------------------------------------------------------------------------
\* Round trip: on an empty buffer of any capacity and any pointer position,
\* one addToCircularBuffer of frameCount frames, then one callback that asks
\* for frameCount frames.
\* ------------------------------------------------------------------------
InitRoundTrip ==
    \E size \in 1..RoundTripMaxCapacity :
       \E start \in 0..(size - 1) :
          \E frameCount \in 0..size :
             /\ ctx = [InitContext(size) EXCEPT !.isPlaying = TRUE,
                                                !.writePointer = start,
                                                !.readPointer = start]
             /\ player = [InitPlayer EXCEPT !.halRunning = TRUE, !.isPlaying = TRUE]
             /\ main = MainAt("add_copy")
             /\ add = [ samples  |-> Generate(1, frameCount),
                        writePtr |-> start,
                        i        |-> 0,
                        ret      |-> "read_back",
                        fits     |-> frameCount < size ]
             /\ cb = IdleCallback
             /\ tui = InitTui
             /\ sim = InitSim
             /\ hist = [InitHist EXCEPT !.nextSample = frameCount + 1,
                                        !.overrun = ~(frameCount < size)]

\* The callback that reads back: it asks for as many frames as were written.
ReadBack ==
    /\ main.pc = "read_back"
    /\ hist.callbacks = 0
    /\ CallbackEnter(Len(add.samples))

NextRoundTrip ==
    \/ AddCopy
    \/ AddCommit
    \/ ReadBack
    \/ CallbackBody

SpecRoundTrip == InitRoundTrip /\ [][NextRoundTrip]_vars



\* ------------------------------------------------------------------------
\* Matched rates: the main loop with a source that is never starved and a
\* HAL that asks for framesPerUpdate frames once per iteration, after the
\* iteration's write.  It begins with `lead` frames of silence buffered at
\* any position of the storage.
\* ------------------------------------------------------------------------
InitMatched ==
    \E start \in 0..(MatchedCapacity - 1) :
       \E lead \in 0..(MatchedCapacity - FramesPerUpdate - 1) :
          /\ ctx = [InitContext(MatchedCapacity) EXCEPT
                       !.isPlaying = TRUE,
                       !.readPointer = start,
                       !.writePointer = (start + lead) % MatchedCapacity]
          /\ player = [InitPlayer EXCEPT !.halRunning = TRUE, !.isPlaying = TRUE]
          /\ main = MainAt("loop")
          /\ add = NoCall
          /\ cb = IdleCallback
          /\ tui = InitTui
          /\ sim = InitSim
          /\ hist = [InitHist EXCEPT !.written = Zeros(lead)]

\* A main-loop iteration whose read from the synthesizer is complete
\* (totalRead = framesPerUpdate), begun when the last callback has returned.
MatchedLoop ==
    /\ cb.pc = "idle"
    /\ main.iter < MatchedCycles
    /\ LoopIteration(MatchedCycles)
    /\ main'.pc = "add_copy"
    /\ Len(add'.samples) = FramesPerUpdate

\* The HAL's request of the iteration: framesPerUpdate frames, after the write.
MatchedInvoke ==
    /\ main.pc = "progress"
    /\ hist.callbacks < main.iter
    /\ CallbackEnter(FramesPerUpdate)

\* The iteration ends when the callback has returned.
MatchedProgress ==
    /\ hist.callbacks = main.iter
    /\ cb.pc = "idle"
    /\ Progress

NextMatched ==
    \/ MatchedLoop
    \/ AddCopy
    \/ AddCommit
    \/ MatchedInvoke
    \/ CallbackBody
    \/ MatchedProgress

SpecMatched == InitMatched /\ [][NextMatched]_vars

\* ------------------------------------------------------------------------
\* Properties
\* ------------------------------------------------------------------------

IsPrefix(s, t) == Len(s) <= Len(t) /\ \A k \in 1..Len(s) : s[k] = t[k]

\* Every write so far found the free space it needs, and no reset overlapped
\* a callback invocation.
Clean == ~hist.overrun /\ ~hist.resetRaced

\* C1: while every write satisfies available + frameCount < capacity, in
\* every interleaving of the producer's and the callback's steps the frames
\* copied out of storage are the frames committed, in commit order, each
\* once: a frame is never copied out before its write is committed.
C1_DeliveredInWriteOrder == Clean => IsPrefix(hist.delivered, hist.written)

\* C1 witness: the callback has copied out four frames, the last two from
\* the wrapped range, while the producer is in the middle of its next copy.
C1_Witness ==
    /\ Clean
    /\ hist.delivered = <<1, 2, 3, 4>>
    /\ cb.pc = "copy"
    /\ main.pc = "add_copy"
    /\ add.i = 1

\* C2 as claimed: for every capacity, start position and frameCount up to
\* the capacity, the callback that reads frameCount frames back gets exactly
\* the frames written.
C2_RoundTrip == cb.pc = "store" => cb.data = add.samples

\* C2 amended: the round trip is exact for frameCount below the capacity;
\* a write of capacity frames leaves both pointers equal, so the callback
\* finds nothing available and delivers silence only.
C2_RoundTripBelowCapacity ==
    cb.pc = "store" =>
        IF Len(add.samples) < ctx.circularBufferSize
        THEN cb.framesToRead = Len(add.samples) /\ cb.data = add.samples
        ELSE cb.framesToRead = 0 /\ cb.data = Zeros(Len(add.samples))

\* C2 witness: three frames written from position 2 of a 4-frame buffer
\* (split at the end of storage) have been read back.
C2_Witness ==
    /\ cb.pc = "store"
    /\ ctx.circularBufferSize = 4
    /\ add.writePtr = 2
    /\ cb.data = <<1, 2, 3>>

\* C3: a playing callback asked for n frames reads min(n, available) frames,
\* available being (writePtr - readPtr) mod capacity of the pointers it
\* loaded; it performs that many copies, publishes readPointer = (loaded
\* readPtr + frames read) mod capacity, and none of its steps changes
\* writePointer or storage.
C3_CallbackReadsMinAndAdvances ==
    [][ /\ cb'.pc \in {"copy", "store"} =>
             cb'.framesToRead =
                 Min(cb'.numberFrames,
                     (cb'.writePtr - cb'.readPtr + ctx.circularBufferSize)
                         % ctx.circularBufferSize)
        /\ cb' # cb =>
             /\ ctx'.writePointer = ctx.writePointer
             /\ ctx'.circularBuffer = ctx.circularBuffer
        /\ (cb.pc = "store" /\ cb'.pc = "idle") =>
             /\ cb.frame = cb.framesToRead
             /\ ctx'.readPointer =
                    (cb.readPtr + cb.frame) % ctx.circularBufferSize
      ]_vars

\* C3 witness: callbacks have read 4 frames of a 3-frame buffer and the
\* published read pointer has wrapped to 1.
C3_Witness ==
    /\ cb.pc = "idle"
    /\ hist.consumed = 4
    /\ ctx.readPointer = 1
    /\ hist.shortCallbacks = 0

\* C4: when a callback asked for n frames finds only a < n available, its
\* destination holds the a oldest unread frames in order in [0, a) and zeros
\* in [a, n).
C4_UnderrunZeroFill ==
    (cb.pc = "store" /\ cb.framesToRead < cb.numberFrames) =>
        /\ cb.framesToRead = cb.available
        /\ \A k \in (cb.framesToRead + 1)..cb.numberFrames : cb.data[k] = 0
        /\ Clean =>
             \A k \in 1..cb.framesToRead :
                cb.data[k] = hist.written[hist.consumed + k]

\* C4 witness: asked for 2 frames with 1 available, the callback delivered
\* the unread frame 3 and one frame of silence.
C4_Witness ==
    /\ cb.pc = "store"
    /\ Clean
    /\ cb.numberFrames = 2
    /\ cb.available = 1
    /\ cb.data = <<3, 0>>

\* C5 as claimed: every addToCircularBuffer call of the main loop finds the
\* free space it needs (available + frameCount < capacity), whatever the
\* consumer does.  (Stated for the runs in which the reset overlapped no
\* callback, so that available counts frames really written.)
C5_ProducerLoopWriteFits ==
    (main.pc = "add_copy" /\ add.ret = "progress" /\ ~hist.resetRaced) => add.fits

\* C6 as claimed: (writePointer - readPointer) mod capacity is the number of
\* frames committed since the last reset minus the frames consumed since
\* then.  (Stated outside a reset in progress and for the runs in which the
\* reset overlapped no callback.)
C6_AvailableIsUnread ==
    (~ResetInProgress /\ ~hist.resetRaced) =>
        Available(ctx.writePointer, ctx.readPointer, ctx.circularBufferSize)
            = Len(hist.written) - hist.consumed

C8_UnderrunCountIsShortCallbacks == ctx.underrunCount = hist.shortCallbacks

\* C9: a callback entered while isPlaying is false (or without storage)
\* returns at once with the whole destination zeroed and changes nothing of
\* the context: pointers, storage, underrunCount.
C9_SilentCallbackChangesNothing ==
    [][(cb.pc = "idle" /\ cb' # cb /\ (~ctx.isPlaying \/ ~player.context)) =>
          /\ cb'.pc = "idle"
          /\ cb'.numberFrames >= 1
          /\ cb'.data = Zeros(cb'.numberFrames)
          /\ ctx' = ctx]_vars

\* C9 witness: between AudioOutputUnitStart and the isPlaying store of
\* start(), a callback asked for 2 frames returned silence although the
\* buffer holds the pre-filled frames.
C9_Witness ==
    /\ cb.pc = "idle"
    /\ cb.silent
    /\ cb.data = <<0, 0>>
    /\ ~ctx.isPlaying
    /\ Available(ctx.writePointer, ctx.readPointer, ctx.circularBufferSize) = FramesPerUpdate

RenderThreadStep == cb' # cb

MainThreadStep == main' # main \/ add' # add

\* C11 as claimed: writePointer is stored by the producer (main) thread only
\* and readPointer by the render callback thread only, in every operation,
\* resetCircularBuffer during playback included.
C11_SingleWriter ==
    [][ /\ ctx'.writePointer # ctx.writePointer => (MainThreadStep /\ ~RenderThreadStep)
        /\ ctx'.readPointer # ctx.readPointer => (RenderThreadStep /\ ~MainThreadStep)
      ]_vars

\* Frames buffered according to the published pointers.
Lead == Available(ctx.writePointer, ctx.readPointer, ctx.circularBufferSize)

\* C12 as claimed: when a producer cycle of the main loop begins with more
\* than maxLeadFrames buffered, the cycle's decision on what to write leaves
\* at most targetLeadFrames buffered.  (Stated for the runs in which the
\* reset overlapped no callback, so that the lead counts frames written.)
C12_LeadDecisionBoundsLatency ==
    [][ ( /\ main.pc = "loop"
          /\ main'.pc \in {"add_copy", "progress"}
          /\ ~hist.resetRaced
          /\ Lead > MaxLeadFrames )
        => Lead' <= TargetLeadFrames ]_vars

\* The lead the matched-rate run began with: what was committed beyond
\* framesPerUpdate frames per iteration.
InitialLead == Len(hist.written) - FramesPerUpdate * main.iter

\* C13 as claimed: from an empty buffer, with a source that is never starved
\* and producer and consumer at the nominal rate, the lead at the end of the
\* producer's cycle is targetLeadFrames from some cycle on (at this scale the
\* tolerance is under one frame): here at the end of the last cycle.
C13_LeadConverges ==
    ( /\ main.pc = "progress"
      /\ hist.callbacks < main.iter
      /\ InitialLead = 0
      /\ main.iter = MatchedCycles )
    => Lead = TargetLeadFrames

\* C14: with N frames written and then N frames requested in every cycle,
\* from a lead L with L + N < capacity, the lead is within [0, capacity] in
\* every state and is L again after every cycle, and every callback got its
\* N frames.
C14_MatchedRatesNoDrift ==
    /\ Lead \in 0..ctx.circularBufferSize
    /\ main.pc = "loop" =>
          /\ Lead = InitialLead
          /\ hist.consumed = FramesPerUpdate * main.iter
          /\ hist.shortCallbacks = 0

\* C14 witness: after the last cycle the lead is the largest initial lead
\* and the write pointer has wrapped behind the read pointer.
C14_Witness ==
    /\ main.pc = "loop"
    /\ main.iter = MatchedCycles
    /\ Lead = MatchedCapacity - FramesPerUpdate - 1
    /\ ctx.writePointer < ctx.readPointer

\* C15 as claimed: from the state the reset produces, one producer cycle
\* that writes framesPerUpdate frames followed by callbacks that read
\* framesPerUpdate frames (none of them short) leaves targetLeadFrames
\* buffered and no underrun counted.
C15_ResetCycleReadLeavesTargetLead ==
    ( /\ main.pc = "progress"
      /\ main.iter = 1
      /\ ~hist.resetRaced
      /\ cb.pc = "idle"
      /\ Len(hist.written) = FramesPerUpdate
      /\ hist.consumed = FramesPerUpdate
      /\ hist.shortCallbacks = 0 )
    => (Lead = TargetLeadFrames /\ ctx.underrunCount = 0)

\* C16 as claimed: when resetCircularBuffer has returned and no callback
\* overlapped it, readPointer = 0, writePointer = targetLeadFrames and every
\* sample of the storage is zero.
C16_ResetPreSeedsLead ==
    (main.pc = "loop" /\ main.iter = 0 /\ ~hist.resetRaced) =>
        /\ ctx.readPointer = 0
        /\ ctx.writePointer = TargetLeadFrames
        /\ \A k \in 0..(ctx.circularBufferSize - 1) : ctx.circularBuffer[k] = 0

BeforeReset ==
    \/ main.pc \in {"prefill", "start", "start_flag", "warmup", "reset_write"}
    \/ (main.pc = "add_copy" /\ add.ret \in {"prefill", "warmup"})

\* Frame v was handed to addToCircularBuffer by the main loop, after the reset.
ProducedAfterReset(v) ==
    /\ ~BeforeReset
    /\ \/ \E k \in 1..Len(hist.written) : hist.written[k] = v
       \/ (main.pc = "add_copy" /\ \E k \in 1..Len(add.samples) : add.samples[k] = v)

\* C18 as claimed: every non-silent frame a callback copies into the HAL's
\* destination buffer was produced after the post-warm-up reset; no frame
\* generated during warm-up is delivered.
C18_NoWarmupAudioDelivered ==
    \A k \in 1..Len(cb.data) :
        (cb.data[k] # 0 /\ cb.data[k] # Unwritten) => ProducedAfterReset(cb.data[k])

\* C19: on every teardown path (normal exit with or without an explicit
\* cleanup(), a failing initialize, the destructor) the context and its
\* storage are freed only when the audio unit has been stopped and disposed
\* (or never existed) and no callback is running; no callback step is ever
\* taken without the context and its storage.
C19_StopBeforeFree ==
    [][ /\ (player.context /\ ~player'.context) =>
             /\ ~player.halRunning
             /\ ~player.audioUnit
             /\ cb.pc = "idle"
        /\ cb' # cb => (player.context /\ player'.context)
        /\ player'.halRunning => player'.context
      ]_vars

\* C19 witness: a run that played (callbacks consumed frames) has stopped,
\* freed the context and deleted the player.
C19_Witness ==
    /\ main.pc = "done"
    /\ ~player.context
    /\ ~player.audioUnit
    /\ hist.callbacks = MaxCallbacks
    /\ hist.consumed > 0

\* C20 as claimed: in interactive and in fixed-duration runs, once g_running
\* is cleared the main loop exits at its next loop-condition check, and no
\* ring-buffer write follows the exit.
C20_LoopObservesRunning ==
    [][ /\ (main.pc = "loop" /\ ~main.running /\ main'.pc # "loop") => main'.pc = "stop"
        /\ main.pc = "stop" =>
             /\ ctx'.writePointer = ctx.writePointer
             /\ ctx'.circularBuffer = ctx.circularBuffer
      ]_vars

\* C21: in a producer cycle of play mode the read from the source takes at
\* most 4 attempts and collects at most framesPerUpdate frames; after it the
\* loop goes on without waiting; the frames written are exactly the frames
\* the source returned, in order, so that writePointer has advanced by their
\* number and is unchanged by a cycle in which the source returned nothing.
C21_PartialResultWritten ==
    /\ main.read.retry <= MaxRetries + 1
    /\ main.read.totalRead <= FramesPerUpdate
    /\ main.pc = "read" => ENABLED (ReadAttempt \/ ReadDone)
    /\ main.pc = "progress" =>
          /\ hist.written = [k \in 1..(hist.nextSample - 1) |-> k]
          /\ ctx.writePointer = (hist.nextSample - 1) % ctx.circularBufferSize
    /\ (main.pc = "progress" /\ main.read.totalRead = 0) =>
          main.read.retry = MaxRetries + 1

\* C21 witness: the source returned nothing three times and one frame at the
\* fourth attempt; the short result was written behind an earlier full one.
C21_Witness ==
    /\ main.pc = "progress"
    /\ main.read.retry = MaxRetries + 1
    /\ main.read.totalRead = 1
    /\ Len(hist.written) = FramesPerUpdate + 1
    /\ ctx.writePointer = FramesPerUpdate + 1

\* C22: once AudioPlayer::initialize has returned false, whichever setup step
\* failed, the audio unit is disposed, the context is freed and no storage is
\* allocated; a start() that follows returns false and leaves the HAL
\* stopped and both isPlaying flags false; the HAL never runs without an
\* audio unit.
C22_InitializeFailureReleases ==
    /\ main.pc \in {"init_failed", "delete", "delete_free", "done"} =>
          /\ ~player.audioUnit
          /\ ~player.context
          /\ ~player.storage
          /\ ~player.halRunning
          /\ ~player.isPlaying
          /\ ~ctx.isPlaying
          /\ cb = IdleCallback
          /\ tui = InitTui
    /\ player.halRunning => player.audioUnit

\* C22 witness: initialize failed and the start() that followed has returned
\* false.
C22_Witness ==
    /\ main.pc = "delete"
    /\ ~player.audioUnit
    /\ ~player.halRunning

\* C23 as claimed: a step of getBufferDiagnostics leaves the context as it
\* was: writePointer, readPointer, the storage, bufferStatus and
\* underrunCount, whatever the number of available frames.
C23_DiagnosticsQueryMutatesNothing ==
    [][(main.pc = "progress" /\ main'.pc = "report") => ctx' = ctx]_vars

\* C24 as claimed: the status a diagnostics query reports is Underrun (3)
\* exactly when available = 0, and Normal (0) for every available between
\* half of targetLeadFrames and twice targetLeadFrames.
C24_StatusRelativeToTargetLead ==
    (main.pc = "report" /\ main.diag.op = "query") =>
        /\ main.diag.status = 3 <=> main.diag.available = 0
        /\ ( /\ 2 * main.diag.available >= TargetLeadFrames
             /\ main.diag.available <= 2 * TargetLeadFrames ) =>
               main.diag.status = 0

\* C30 as claimed: the number of frames a producer cycle of the main loop
\* writes is a function of the lead L at the start of the cycle: for L not
\* above maxLeadFrames it is 0 when L >= targetLeadFrames and the smaller of
\* targetLeadFrames - L and framesPerUpdate otherwise.
C30_FramesWrittenFunctionOfLead ==
    [][ ( /\ main.pc = "loop"
          /\ main'.pc \in {"add_copy", "progress"}
          /\ Lead <= MaxLeadFrames )
        => (IF main'.pc = "add_copy" THEN Len(add'.samples) ELSE 0)
              = (IF Lead >= TargetLeadFrames
                 THEN 0
                 ELSE Min(TargetLeadFrames - Lead, FramesPerUpdate)) ]_vars

\* ------------------------------------------------------------------------
\* engine-sim-tui.  engine-sim-cli takes no step in these specifications.
\* ------------------------------------------------------------------------
NoCli ==
    /\ ctx = InitContext(CapacityFrames)
    /\ player = NewPlayer
    /\ main = MainAt("initialize")
    /\ add = NoCall
    /\ cb = IdleCallback
    /\ hist = InitHist
    /\ sim = InitSim

\* A call of the view models' interface, as tui.call records it.
Call(op, value, min, max, ret) ==
    [ op |-> op, value |-> value, min |-> min, max |-> max, ret |-> ret ]

\* ------------------------------------------------------------------------
\* One GaugeViewModel under any sequence of SetRange and SetValue calls.
\* ------------------------------------------------------------------------
GaugeInputs ==
    { a * GaugeCoarse + b : a \in 0..GaugeCoarseSteps, b \in 0..GaugeFineSteps }

InitGauge ==
    /\ NoCli
    /\ tui = InitTui

GaugeSetRange ==
    /\ \E min \in GaugeInputs :
          \E max \in GaugeInputs :
             /\ min <= max
             /\ tui' = [tui EXCEPT !.gauge = SetRange(@, min, max),
                                   !.call = Call("SetRange", 0, min, max, FALSE)]
    /\ UNCHANGED cliVars

GaugeSetValue ==
    /\ \E value \in GaugeInputs :
          tui' = [tui EXCEPT !.gauge = SetValue(@, value),
                             !.call = Call("SetValue", value, 0, 0,
                                           SetValueReturns(tui.gauge, value))]
    /\ UNCHANGED cliVars

NextGauge ==
    \/ GaugeSetRange
    \/ GaugeSetValue

SpecGauge == InitGauge /\ [][NextGauge]_vars

\* ------------------------------------------------------------------------
\* MockEngineDataProvider and EngineViewModel under the calls of one thread.
\* ------------------------------------------------------------------------
\* Constant RPM patterns, throttle values (percent) and time steps
\* (milliseconds) given to the provider.
RpmPatterns == { 5, 3500 }

Throttles == { 1, 50 }

UpdateSteps == { 16, 2000 }

InitViewModel ==
    /\ NoCli
    /\ \E pattern \in RpmPatterns : tui = NewTui(pattern)

SetDataProvider ==
    /\ tui' = [tui EXCEPT !.engine.m_provider = TRUE,
                          !.call = Call("SetDataProvider", 0, 0, 0, FALSE)]
    /\ UNCHANGED cliVars

SetUpdateCallback ==
    /\ tui' = [tui EXCEPT !.engine.m_updateCallback = TRUE,
                          !.call = Call("SetUpdateCallback", 0, 0, 0, FALSE)]
    /\ UNCHANGED cliVars

SetRpmPattern ==
    /\ \E pattern \in RpmPatterns :
          tui' = [tui EXCEPT !.provider.m_rpmPattern = pattern,
                             !.sincePattern = 0,
                             !.call = Call("SetRpmPattern", 0, 0, 0, FALSE)]
    /\ UNCHANGED cliVars

SetThrottle ==
    /\ \E value \in Throttles :
          tui' = [tui EXCEPT !.provider.m_throttle = Clamp(value, 0, 100),
                             !.call = Call("SetThrottle", 0, 0, 0, FALSE)]
    /\ UNCHANGED cliVars

\* m_provider->Update(dt)
ProviderStep ==
    /\ tui.providerUpdates < MaxProviderUpdates
    /\ \E dt \in UpdateSteps :
          tui' = [tui EXCEPT !.provider = ProviderUpdate(@, dt),
                             !.providerUpdates = @ + 1,
                             !.sincePattern = @ + 1,
                             !.call = Call("MockEngineDataProvider::Update", 0, 0, 0, FALSE)]
    /\ UNCHANGED cliVars

\* m_viewModel.Update()
EngineStep ==
    /\ tui' = [tui EXCEPT !.engine = EngineUpdate(@, tui.provider),
                          !.callbackCalls = CallbackCalls(tui.engine, tui.provider),
                          !.call = Call("EngineViewModel::Update", 0, 0, 0, FALSE)]
    /\ UNCHANGED cliVars

NextViewModel ==
    \/ SetDataProvider
    \/ SetUpdateCallback
    \/ SetRpmPattern
    \/ SetThrottle
    \/ ProviderStep
    \/ EngineStep

SpecViewModel == InitViewModel /\ [][NextViewModel]_vars

\* ------------------------------------------------------------------------
\* The dashboard: main's update thread runs DashboardLayout::Update in a
\* loop, the UI thread runs DashboardLayout::Render.  The store of a gauge's
\* m_value and the load of it are plain accesses of a double: each takes
\* from its beginning ("store", "load") to its end.
\* ------------------------------------------------------------------------
InitDashboard ==
    /\ NoCli
    /\ \E pattern \in RpmPatterns :
          tui = [NewTui(pattern) EXCEPT !.engine.m_provider = TRUE]

\* The update thread after gauge i: the next gauge, or the end of Update.
AfterGauge(update) ==
    IF update.i < Len(Gauges)
    THEN [update EXCEPT !.pc = "set", !.i = @ + 1]
    ELSE [update EXCEPT !.pc = "provider", !.i = 1, !.n = @ + 1]

\* while (running) { dashboard->Update(): m_dataProvider->Update(0.016);
DashboardProvider ==
    /\ tui.update.pc = "provider"
    /\ tui.update.n < MaxDashboardUpdates
    /\ tui' = [tui EXCEPT !.provider = ProviderUpdate(@, 16),
                          !.update.pc = "engine"]
    /\ UNCHANGED cliVars

\* m_engineViewModel->Update();  (The history takes down the values the
\* gauges will have when this Update is done.)
DashboardEngine ==
    /\ tui.update.pc = "engine"
    /\ LET engine == EngineUpdate(tui.engine, tui.provider)
       IN  tui' = [tui EXCEPT
                     !.engine = engine,
                     !.callbackCalls = CallbackCalls(tui.engine, tui.provider),
                     !.update.pc = "set",
                     !.update.i = 1,
                     !.snapshots = @ \cup
                         { [i \in 1..Len(Gauges) |->
                              SetValue(tui.gauges[i], GaugeSource(engine, i)).m_value] }]
    /\ UNCHANGED cliVars

\* gauge->SetValue(...) up to its decision: it returns false, or it goes on
\* to store m_value.
DashboardSetValue ==
    /\ tui.update.pc = "set"
    /\ LET i == tui.update.i
       IN  IF SetValueReturns(tui.gauges[i], GaugeSource(tui.engine, i))
           THEN tui' = [tui EXCEPT !.update.pc = "store"]
           ELSE tui' = [tui EXCEPT !.update = AfterGauge(@)]
    /\ UNCHANGED cliVars

\* m_value = clampedValue is done.
DashboardStore ==
    /\ tui.update.pc = "store"
    /\ LET i == tui.update.i
       IN  tui' = [tui EXCEPT
                     !.gauges[i] = SetValue(@, GaugeSource(tui.engine, i)),
                     !.update = AfterGauge(@)]
    /\ UNCHANGED cliVars

\* The UI thread enters dashboard->Render().
RenderBegin ==
    /\ tui.render.pc = "idle"
    /\ tui.render.n < MaxRenders
    /\ tui' = [tui EXCEPT !.render.pc = "render", !.render.i = 1]
    /\ UNCHANGED cliVars

\* gauge->Render(): FormatValue begins to load m_value.
RenderLoad ==
    /\ tui.render.pc = "render"
    /\ tui' = [tui EXCEPT !.render.pc = "load"]
    /\ UNCHANGED cliVars

\* The load of m_value is done: it returns the stored value, or, racing with
\* the update thread's store, the value being stored.
RenderLoaded ==
    /\ tui.render.pc = "load"
    /\ LET i == tui.render.i
           racing == tui.update.pc = "store" /\ tui.update.i = i
       IN  \E value \in { tui.gauges[i].m_value,
                          IF racing
                          THEN SetValue(tui.gauges[i], GaugeSource(tui.engine, i)).m_value
                          ELSE tui.gauges[i].m_value } :
              tui' = [tui EXCEPT
                        !.render.seen[i] = value,
                        !.render.pc = IF i < Len(Gauges) THEN "render" ELSE "idle",
                        !.render.i = IF i < Len(Gauges) THEN i + 1 ELSE 1,
                        !.render.n = IF i < Len(Gauges) THEN @ ELSE @ + 1]
    /\ UNCHANGED cliVars

NextDashboard ==
    \/ DashboardProvider
    \/ DashboardEngine
    \/ DashboardSetValue
    \/ DashboardStore
    \/ RenderBegin
    \/ RenderLoad
    \/ RenderLoaded

SpecDashboard == InitDashboard /\ [][NextDashboard]_vars

\* C25 as claimed: whatever SetRange(min, max) with min <= max and SetValue
\* calls were made, the gauge's value lies within its range.
C25_ValueWithinRange ==
    /\ tui.gauge.m_min <= tui.gauge.m_value
    /\ tui.gauge.m_value <= tui.gauge.m_max

\* C26: a call SetValue(v) returns true and stores clamp(v, min, max) if the
\* clamped value differs from the current value by at least 1% of max - min;
\* otherwise it returns false and the stored value stays as it was.
C26_SetValueThreshold ==
    [][ (tui'.call.op = "SetValue" /\ tui' # tui) =>
          LET g == tui.gauge
              clamped == Clamp(tui'.call.value, g.m_min, g.m_max)
          IN  IF 100 * Abs(clamped - g.m_value) >= g.m_max - g.m_min
              THEN tui'.call.ret /\ tui'.gauge.m_value = clamped
              ELSE ~tui'.call.ret /\ tui'.gauge.m_value = g.m_value ]_vars

\* C26 witness: a SetValue whose value lies in the range and differs from the
\* stored one by less than 1% of the range has returned false, after one that
\* was stored.
C26_Witness ==
    /\ tui.call.op = "SetValue"
    /\ ~tui.call.ret
    /\ tui.call.value >= tui.gauge.m_min
    /\ tui.call.value <= tui.gauge.m_max
    /\ tui.call.value # tui.gauge.m_value
    /\ tui.gauge.m_value # 0

\* C27 as claimed: after a fresh provider with the constant pattern P was
\* advanced by one Update(dt), an EngineViewModel::Update makes GetRPM()
\* reflect P: it lies within 500 rpm of P (P = 3500: between 3000 and 4000).
C27_UpdateReflectsPattern ==
    [][ ( /\ tui'.call.op = "EngineViewModel::Update"
          /\ tui' # tui
          /\ UpdateRuns(tui.engine, tui.provider)
          /\ tui.providerUpdates = 1
          /\ tui.sincePattern = 1
          /\ ~tui.provider.m_starterEngaged )
        => Abs(tui'.engine.m_rpm - tui.provider.m_rpmPattern) < 500 ]_vars

\* C28: an EngineViewModel::Update with an initialized provider leaves
\* HasChanged() true exactly if RPM, throttle, manifold pressure or speed of
\* the provider differed from the cached value by more than its threshold,
\* and calls the update callback once if so and not at all otherwise.
C28_HasChangedAndCallback ==
    [][ ( /\ tui'.call.op = "EngineViewModel::Update"
          /\ tui' # tui
          /\ UpdateRuns(tui.engine, tui.provider) )
        => LET e == tui.engine
               p == tui.provider
               differs ==
                  \/ Abs(p.m_rpm - e.m_rpm) > RPM_CHANGE_THRESHOLD
                  \/ Abs(p.m_throttle - e.m_throttle) > 1
                  \/ Abs(p.m_manifoldPressure - e.m_manifoldPressure)
                        > PRESSURE_CHANGE_THRESHOLD
                  \/ Abs(p.m_speed - e.m_speed) > SPEED_CHANGE_THRESHOLD
           IN  /\ tui'.engine.m_hasChanged = differs
               /\ tui'.callbackCalls =
                     (IF differs /\ e.m_updateCallback THEN 1 ELSE 0) ]_vars

\* C28 witness: an Update with the callback set found the RPM changed (and
\* the throttle moved by exactly its threshold, which is no change), left
\* HasChanged() true and called the callback once.
C28_Witness ==
    /\ tui.call.op = "EngineViewModel::Update"
    /\ tui.engine.m_provider
    /\ tui.engine.m_updateCallback
    /\ tui.engine.m_hasChanged
    /\ tui.callbackCalls = 1
    /\ tui.engine.m_rpm = tui.provider.m_rpm
    /\ tui.engine.m_rpm > RPM_CHANGE_THRESHOLD
    /\ Abs(tui.provider.m_throttle - tui.engine.m_throttle) = 1

\* C29 as claimed: no load of a gauge's value by the UI thread overlaps a
\* store of it by the update thread, and the values a finished Render has
\* read are the gauges' values after a whole number of Updates.
C29_RenderNeverOverlapsUpdate ==
    /\ ~( /\ tui.update.pc = "store"
          /\ tui.render.pc = "load"
          /\ tui.update.i = tui.render.i )
    /\ (tui.render.pc = "idle" /\ tui.render.n > 0) =>
          tui.render.seen \in tui.snapshots

\* C31: in every producer cycle of the warm-up and main loops, cycles that
\* used read retries included, the frames handed to the ring buffer are at
\* most one cycle's worth (framesPerUpdate), so the frames written since the
\* loop began are at most framesPerUpdate for each of its cycles.
C31_CycleWritesAtMostOneCycle ==
    /\ main.pc \in {"warmup_read", "read"} => main.read.totalRead <= FramesPerUpdate
    /\ main.pc = "add_copy" => Len(add.samples) <= FramesPerUpdate
    /\ main.pc \in {"warmup", "warmup_read", "loop", "read", "progress"} =>
          Len(hist.written) <= main.iter * FramesPerUpdate
    /\ main.pc = "add_copy" =>
          Len(hist.written) <= (main.iter - 1) * FramesPerUpdate

\* C31 witness: a main-loop cycle whose first read came up short and whose
\* retry filled the cycle; with it every cycle so far wrote a full cycle.
C31_Witness ==
    /\ main.pc = "progress"
    /\ main.read.retry = 2
    /\ main.read.totalRead = FramesPerUpdate
    /\ main.iter = 2
    /\ Len(hist.written) = 2 * FramesPerUpdate

\* C32: addToCircularBuffer(samples, n) with 0 <= n <= capacity: each of its
\* steps leaves readPointer and underrunCount alone; a copy step changes at
\* most the storage frame (writePtr + i) mod capacity, i < n, in the order of
\* i (so at most two contiguous runs), and leaves writePointer alone; the
\* last step finds all n frames copied and publishes writePointer =
\* (writePtr + n) mod capacity without touching storage.
C32_AddWritesOnlyItsFrames ==
    [][ main.pc = "add_copy" =>
          LET n    == Len(add.samples)
              size == ctx.circularBufferSize
          IN  /\ n <= size
              /\ ctx'.readPointer = ctx.readPointer
              /\ ctx'.underrunCount = ctx.underrunCount
              /\ \A k \in 0..(size - 1) :
                    ctx'.circularBuffer[k] # ctx.circularBuffer[k] =>
                       /\ add.i < n
                       /\ k = (add.writePtr + add.i) % size
                       /\ ctx'.circularBuffer[k] = add.samples[add.i + 1]
              /\ main'.pc = "add_copy" =>
                    /\ ctx'.writePointer = ctx.writePointer
                    /\ add'.i = add.i + 1
              /\ main'.pc # "add_copy" =>
                    /\ add.i = n
                    /\ ctx'.circularBuffer = ctx.circularBuffer
                    /\ ctx'.writePointer = (add.writePtr + n) % size
                    /\ \A i \in 0..(n - 1) :
                          ctx.circularBuffer[(add.writePtr + i) % size] = add.samples[i + 1]
      ]_vars

\* C32 witness: a write of capacity frames from position 2 of a 4-frame
\* buffer has returned: both segments are in storage and the write pointer is
\* back at 2.
C32_Witness ==
    /\ main.pc = "read_back"
    /\ cb.pc = "idle"
    /\ hist.callbacks = 0
    /\ ctx.circularBufferSize = 4
    /\ add.writePtr = 2
    /\ ctx.writePointer = 2
    /\ ctx.readPointer = 2
    /\ \A i \in 0..3 : ctx.circularBuffer[(2 + i) % 4] = i + 1

\* C33: in every reachable state, after any writes, callbacks and resets, the
\* two pointers lie in [0, capacity), and so does the available count that
\* the callback and getBufferDiagnostics computed from the pointers they
\* loaded.
C33_PointersAndAvailableInRange ==
    LET InRange(x) == 0 <= x /\ x < ctx.circularBufferSize
    IN  /\ InRange(ctx.writePointer)
        /\ InRange(ctx.readPointer)
        /\ cb.pc \in {"copy", "fill", "store"} =>
              /\ InRange(cb.readPtr)
              /\ InRange(cb.writePtr)
              /\ InRange(cb.available)
        /\ main.diag.op = "query" =>
              /\ InRange(main.diag.writePtr)
              /\ InRange(main.diag.readPtr)
              /\ InRange(main.diag.available)

\* C33 witness: after the reset the write pointer has wrapped past the read
\* pointer; getBufferDiagnostics and a running callback have both computed
\* a non-zero available count across the end of storage.
C33_Witness ==
    /\ main.pc = "report"
    /\ main.diag.op = "query"
    /\ main.diag.writePtr < main.diag.readPtr
    /\ main.diag.available > 0
    /\ cb.pc = "copy"
    /\ cb.writePtr < cb.readPtr
    /\ cb.available > 0

C35_ResetLeavesBufferEmpty ==
    (main.pc = "loop" /\ main.iter = 0 /\ cb.pc = "idle") =>
        /\ ctx.readPointer = 0
        /\ ctx.writePointer = 0
        /\ Available(ctx.writePointer, ctx.readPointer, ctx.circularBufferSize) = 0

\* C36 as claimed: at every state of the main loop framesRendered <=
\* bufferFrames; no Render call writes past the end of audioBuffer and the
\* final WAV write does not read past it, in interactive and non-interactive
\* runs, with or without --play.
C36_RecordingBufferNeverOverrun ==
    /\ sim.framesRendered <= BufferFrames
    /\ ~sim.outsideBuffer

\* C37 as claimed: getBufferDiagnostics is never called in the main loop
\* while audioPlayer is null.
C37_DiagnosticsOnlyFromExistingPlayer == ~sim.nullDiagnostics

\* C38: during the engine-mode warm-up the starter is disengaged exactly
\* once: until then fewer than 15 consecutive samples were above 300 RPM and
\* the cutoff time was not reached, and it happens in the iteration in which
\* the 15th consecutive sample is seen or the cutoff is reached; so when the
\* warm-up has ended the starter is off, and the main loop starts with
\* starterEnabled false and engineHasStarted true.
C38_WarmupDisengagesStarterOnce ==
    /\ sim.disengageCount <= 1
    /\ sim.starterDisengaged <=> sim.disengageCount = 1
    /\ sim.pc = "warmup" =>
          /\ sim.starterMotor <=> ~sim.starterDisengaged
          /\ ~sim.starterDisengaged =>
                /\ sim.streak < RequiredSustainedFrames
                /\ sim.currentTime < MaxStarterTime
    /\ sim.starterDisengaged =>
          \/ /\ sim.disengagedStreak = RequiredSustainedFrames
             /\ sim.disengagedAt <= MaxStarterTime
          \/ /\ sim.disengagedStreak < RequiredSustainedFrames
             /\ sim.disengagedAt = MaxStarterTime
    /\ sim.pc # "warmup" => sim.starterDisengaged
    /\ (sim.pc = "main" /\ sim.iterations = 0) =>
          /\ ~sim.starterMotor
          /\ ~sim.starterEnabled
          /\ sim.engineHasStarted

\* C38 witness: the engine had shown 14 samples above 300 RPM in a row when
\* the cutoff disengaged the starter; the warm-up has ended and the main loop
\* is about to start.
C38_Witness ==
    /\ sim.pc = "main"
    /\ sim.iterations = 0
    /\ sim.disengageCount = 1
    /\ sim.disengagedAt = MaxStarterTime
    /\ sim.disengagedStreak = RequiredSustainedFrames - 1
    /\ ~sim.starterEnabled
    /\ sim.engineHasStarted

\* C39 as claimed: in the main loop starterEnabled always equals the state
\* last commanded to the engine, the 'S' toggle included; at the end of an
\* iteration that observed more than 350 RPM the starter is off; and the
\* main loop engages the starter only at an RPM below 150 with the engine
\* started.
C39_StarterFollowsHysteresis ==
    sim.pc \in {"main", "keys"} =>
        /\ sim.starterEnabled = sim.starterMotor
        /\ (sim.pc = "main" /\ sim.iterations > 0
               /\ sim.currentRPM > RunningRPMThreshold) => ~sim.starterMotor
        /\ sim.engagedAtRPM < RestartRPM
        /\ sim.starterMotor => sim.engineHasStarted

============================================================================
